---- MODULE Spec2Model ----
(***************************************************************************)
(* Model of the TradeStation python client: the OAuth2 TokenManager        *)
(* (src/src/auth.py), the request executor and its retrying wrapper        *)
(* (base_client.py, endpoints/mkt_data.py) and the date chunk planner of   *)
(* get_bars_between.                                                       *)
(*                                                                         *)
(* A python dict over the seven credential keys is a function from Keys to *)
(* integers; the value Absent marks a key that the dict does not hold (or  *)
(* holds as None), BadValue a value int() cannot convert.                  *)
(***************************************************************************)
EXTENDS Integers, Sequences, FiniteSets, TLC

\* ------------------------------------------------------------------ bounds
NThreads == 2
MaxCalls == 3
MaxNow == 2
MaxRetries == 3
MaxFirstDate == 1
MaxLastDate == 165
MaxInterval == 3
MaxChunks == 3
MaxWorkers == 2
MaxItems == 101
MaxDepth == 3
MaxLines == 4

\* ------------------------------------------------------- program constants
SAFETY_MARGIN == 30

Absent == 0 - 1
BadValue == 0 - 2

Keys == {"access_token", "id_token", "scope", "expires_in", "token_type",
         "refresh_token", "obtained_at"}

required_keys == {"access_token", "id_token", "scope", "expires_in",
                  "token_type", "refresh_token", "obtained_at"}

EmptyDict == [k \in Keys |-> Absent]

Threads == 1..NThreads

\* opaque string values of the credential fields
SomeValue == 1
EnvRefreshToken == 7
ServerRefreshToken == 8
FileRefreshToken == 9

VARIABLES
    token_data,   \* TokenManager.token_data, the in-memory credential record
    file,         \* content of token_file: [kind, rec]
    lock,         \* TokenManager._lock: 0 when free, else the holding thread
    now,          \* time.time(), in whole seconds
    url_set,      \* whether TS_TOKEN_URL is set in the environment
    posts,        \* number of requests.post calls issued to the token endpoint
    hist,         \* per finished refresh request: the stamped record, or EmptyDict for a failed POST
    pc,           \* per thread: position inside get_token
    data,         \* per thread: local `data` of _is_expired
    new_data,     \* per thread: local `new_data` of _refresh
    ret,          \* per thread: outcome of the last finished get_token call
    calls,        \* per thread: number of get_token calls started
    stale,        \* per thread: the call began before any call had returned and its lock-free check found the record absent or expired

    expired,      \* result of a direct _is_expired() call: "unset", "True" or "False"
    rq_pc,        \* position inside _request_with_retry / make_request
    retries,      \* argument `retries` of _request_with_retry
    attempt,      \* loop variable `attempt` of _request_with_retry
    headers,      \* token in headers["Authorization"]
    gets,         \* number of requests.get calls issued so far
    mr_log,       \* the GETs of the running/last make_request call: [status, auth, id]
    mr_posts,     \* value of posts when the running/last make_request call began
    mr_out,       \* outcome of the running/last make_request call
    att_log,      \* outcome of every finished attempt of the _request_with_retry call
    sleeps,       \* per finished attempt: k when time.sleep(backoff * k) followed it, else 0
    rq_out,       \* outcome of the _request_with_retry call
    gb_pc,        \* position inside get_bars_between
    gb_args,      \* arguments of the get_bars_between call
    gb_exc,       \* exception get_bars_between raised before any bar request, or "none"
    gb_calls,     \* number of token_manager.get_token() calls get_bars_between made
    chunks,       \* the (start, end) pairs get_bars_between will request
    mg_pc,        \* position inside the chunked fetch of get_bars_between
    mg_key,       \* key under which the bars of the responses carry their timestamp
    mg_workers,   \* argument max_workers
    mg_res,       \* per chunk: what its fetch will answer
    mg_fut,       \* per chunk: state of its future
    merged,       \* the accumulator `merged`
    mg_out,       \* outcome of the chunked get_bars_between call
    bk_pc,        \* position inside a bulk endpoint
    bk_args,      \* the endpoint called and the sizes of its arguments
    bk_msg,       \* message of the error the endpoint raised, or "none"
    bk_calls,     \* number of token_manager.get_token() calls the endpoint made
    bk_gets,      \* number of requests (GET or streaming connect) the endpoint started
    st_pc,        \* position of the thread running stream_loop
    running,      \* BaseStreamClient._running
    stack,        \* the suspended _run_stream frames: "try" (waiting in the 401 branch) or "handler" (waiting in the except branch)
    has_data,     \* local has_data of the running _run_stream
    st_line,      \* the line about to be parsed and dispatched
    st_exc,       \* exception that left stream_loop, or "none"
    stop_called,  \* stop() was called by the user on the running session
    slept,        \* the time.sleep durations since the last _connect call
    prev_conn,    \* how the last connection ended
    late_connect, \* the reconnect path called _connect after stop()
    fatal_seen,   \* a connect was answered with a fatal status
    post_fatal,   \* a connect, token call or on_message happened after a fatal status
    st_headers,   \* token in headers["Authorization"] of the stream session, Absent if none
    conn_auth,    \* token the last _connect call carried
    st_lines,     \* the lines the open connection delivered while the session was running
    dispatched,   \* the on_message calls made for the open connection: positions in st_lines
    late_calls,   \* number of on_message calls begun after stop() was called on the running session
    early_stop    \* stop() was called before stream_loop began

vars == <<token_data, file, lock, now, url_set, posts, hist, pc, data,
          new_data, ret, calls, stale, expired, rq_pc, retries, attempt,
          headers, gets, mr_log, mr_posts, mr_out, att_log, sleeps, rq_out,
          gb_pc, gb_args, gb_exc, gb_calls, chunks,
          mg_pc, mg_key, mg_workers, mg_res, mg_fut, merged, mg_out,
          bk_pc, bk_args, bk_msg, bk_calls, bk_gets,
          st_pc, running, stack, has_data, st_line, st_exc, stop_called,
          slept, prev_conn, late_connect, fatal_seen, post_fatal,
          st_headers, conn_auth, st_lines, dispatched, late_calls,
          early_stop>>

rqVars == <<rq_pc, retries, attempt, headers, gets, mr_log, mr_posts, mr_out,
            att_log, sleeps, rq_out>>

thVars == <<pc, data, new_data, ret, calls, stale>>
exVars == <<expired>>
gbVars == <<gb_pc, gb_args, gb_exc, gb_calls, chunks>>
mgVars == <<mg_pc, mg_key, mg_workers, mg_res, mg_fut, merged, mg_out>>
bkVars == <<bk_pc, bk_args, bk_msg, bk_calls, bk_gets>>
stVars == <<st_pc, running, stack, has_data, st_line, st_exc, stop_called,
            slept, prev_conn, late_connect, fatal_seen, post_fatal,
            st_headers, conn_auth, st_lines, dispatched, late_calls,
            early_stop>>

tmVars == <<token_data, file, lock, url_set, posts, hist>>

\* what the steps of each part of the program leave alone
notToken == <<exVars, rqVars, gbVars, mgVars, bkVars, stVars>>
notExpiry == <<rqVars, gbVars, mgVars, bkVars, stVars>>
notRequest == <<lock, url_set, hist, thVars, exVars, gbVars, mgVars, bkVars,
                stVars>>
notBars == <<lock, url_set, hist, now, thVars, exVars, rqVars, mgVars, bkVars,
             stVars>>
notMerge == <<tmVars, now, thVars, exVars, rqVars, gbVars, bkVars, stVars>>
notBulk == <<lock, url_set, hist, now, thVars, exVars, rqVars, gbVars, mgVars,
             stVars>>
notStream == <<lock, url_set, hist, now, thVars, exVars, rqVars, gbVars,
               mgVars, bkVars>>

\* ------------------------------------------------------------ the token file
NoFile == [kind |-> "absent", rec |-> EmptyDict]
CorruptFile == [kind |-> "corrupt", rec |-> EmptyDict]
JsonFile(d) == [kind |-> "json", rec |-> d]

FileRecord(exp) ==
    [k \in Keys |->
        CASE k = "access_token" -> 0
          [] k = "expires_in" -> exp
          [] k = "refresh_token" -> FileRefreshToken
          [] k = "obtained_at" -> 0
          [] OTHER -> SomeValue]

InitFiles ==
    { NoFile, CorruptFile,
      JsonFile([FileRecord(SAFETY_MARGIN + 1) EXCEPT !["id_token"] = Absent]),
      JsonFile(FileRecord(SAFETY_MARGIN + 1)),
      JsonFile(FileRecord(SAFETY_MARGIN)) }

load_unchecked(f) ==
    IF f.kind = "absent" THEN EmptyDict
    ELSE IF f.kind = "corrupt" THEN EmptyDict
    ELSE f.rec

\* TokenManager._load
load(f) ==
    IF f.kind = "absent" THEN EmptyDict
    ELSE IF f.kind = "corrupt" THEN EmptyDict
    ELSE IF \E k \in required_keys : f.rec[k] = Absent THEN EmptyDict
    ELSE f.rec

\* ------------------------------------------------------------- _is_expired
IsNumber(v) == v # BadValue

is_expired_gt(d, t) ==
    IF d = EmptyDict THEN TRUE
    ELSE IF d["obtained_at"] = Absent \/ d["expires_in"] = Absent THEN TRUE
    ELSE IF ~IsNumber(d["obtained_at"]) \/ ~IsNumber(d["expires_in"]) THEN TRUE
    ELSE t > d["obtained_at"] + d["expires_in"] - SAFETY_MARGIN

\* TokenManager._is_expired on record d (the value read at line 106) at time t
is_expired(d, t) ==
    IF d = EmptyDict THEN TRUE
    ELSE IF d["obtained_at"] = Absent \/ d["expires_in"] = Absent THEN TRUE
    ELSE IF ~IsNumber(d["obtained_at"]) \/ ~IsNumber(d["expires_in"]) THEN TRUE
    ELSE t >= d["obtained_at"] + d["expires_in"] - SAFETY_MARGIN

\* ------------------------------------------------- the token endpoint's answers
\* 2xx bodies the endpoint may send; the access_token is filled in per request
ResponseShapes ==
    { [k \in Keys |->
        CASE k = "obtained_at" -> Absent
          [] k = "expires_in" -> SAFETY_MARGIN + 2
          [] k = "refresh_token" -> ServerRefreshToken
          [] OTHER -> SomeValue],
      [k \in Keys |->
        CASE k \in {"obtained_at", "refresh_token", "id_token", "scope"} -> Absent
          [] k = "expires_in" -> SAFETY_MARGIN + 1
          [] OTHER -> SomeValue],
      [k \in Keys |->
        CASE k \in {"obtained_at", "access_token", "refresh_token"} -> Absent
          [] k = "expires_in" -> SAFETY_MARGIN + 2
          [] OTHER -> SomeValue] }

ResponseBody(shape, tok) ==
    IF shape["access_token"] = Absent THEN shape
    ELSE [shape EXCEPT !["access_token"] = tok]

\* _refresh line 151: the refresh_token every refresh request sends
payload_refresh_token == EnvRefreshToken

carry_over_none(body) == body

\* _refresh lines 163-168: new_data with the refresh_token defaulted to the payload's
carry_over(body) ==
    IF body["refresh_token"] = Absent
    THEN [body EXCEPT !["refresh_token"] = payload_refresh_token]
    ELSE body

NoRet == [kind |-> "none", tok |-> Absent]
Returned(tok) == [kind |-> "ok", tok |-> tok]
Raised(exc) == [kind |-> exc, tok |-> Absent]

\* ---------------------------------------------------------------- Init
ThreadsIdle ==
    /\ pc = [t \in Threads |-> "idle"]
    /\ data = [t \in Threads |-> EmptyDict]
    /\ new_data = [t \in Threads |-> EmptyDict]
    /\ ret = [t \in Threads |-> NoRet]
    /\ calls = [t \in Threads |-> 0]
    /\ stale = [t \in Threads |-> FALSE]

TokenInit ==
    /\ file \in InitFiles
    /\ token_data = load(file)
    /\ lock = 0
    /\ now = 0
    /\ url_set \in BOOLEAN
    /\ posts = 0
    /\ hist = <<>>
    /\ ThreadsIdle

ExpiryIdle == expired = "unset"

NoOutcome == [kind |-> "none", status |-> 0, id |-> 0, body |-> "none"]

RequestIdle ==
    /\ rq_pc = "idle"
    /\ retries = 0
    /\ attempt = 0
    /\ headers = 0
    /\ gets = 0
    /\ mr_log = <<>>
    /\ mr_posts = 0
    /\ mr_out = NoOutcome
    /\ att_log = <<>>
    /\ sleeps = <<>>
    /\ rq_out = NoOutcome

NoArgs ==
    [legacy |-> FALSE, first_date |-> 0, last_date |-> 0, unit |-> "none",
     interval |-> 0, den |-> 1]

BarsIdle ==
    /\ gb_pc = "idle"
    /\ gb_args = NoArgs
    /\ gb_exc = "none"
    /\ gb_calls = 0
    /\ chunks = <<>>

NoMerged == [has_bars |-> FALSE, Bars |-> <<>>]
NoResult == [kind |-> "none", has_bars |-> FALSE, Bars |-> <<>>]

MergeIdle ==
    /\ mg_pc = "idle"
    /\ mg_key = "none"
    /\ mg_workers = 0
    /\ mg_res = <<>>
    /\ mg_fut = <<>>
    /\ merged = NoMerged
    /\ mg_out = NoResult

NoBulkArgs ==
    [endpoint |-> "none", n_accounts |-> 0, n_order_ids |-> 0,
     since_ok |-> TRUE]

BulkIdle ==
    /\ bk_pc = "idle"
    /\ bk_args = NoBulkArgs
    /\ bk_msg = "none"
    /\ bk_calls = 0
    /\ bk_gets = 0

StreamIdle ==
    /\ st_pc = "idle"
    /\ running = FALSE
    /\ stack = <<>>
    /\ has_data = FALSE
    /\ st_line = "none"
    /\ st_exc = "none"
    /\ stop_called = FALSE
    /\ slept = {}
    /\ prev_conn = "none"
    /\ late_connect = FALSE
    /\ fatal_seen = FALSE
    /\ post_fatal = FALSE
    /\ st_headers = Absent
    /\ conn_auth = Absent
    /\ st_lines = <<>>
    /\ dispatched = <<>>
    /\ late_calls = 0
    /\ early_stop = FALSE

Init ==
    /\ TokenInit
    /\ ExpiryIdle
    /\ RequestIdle
    /\ BarsIdle
    /\ MergeIdle
    /\ BulkIdle
    /\ StreamIdle

\* ----------------------------------------------------- get_token, per thread
RECURSIVE SumTo(_, _)
SumTo(f, n) == IF n = 0 THEN 0 ELSE f[n] + SumTo(f, n - 1)

\* get_token calls started so far, over all threads
TotalCalls == SumTo(calls, NThreads)

\* no get_token call has returned or raised yet
NoneReturned == \A u \in Threads : pc[u] = "idle" => calls[u] = 0

\* a thread enters get_token (line 173)
GetTokenCall(t) ==
    /\ pc[t] = "idle"
    /\ TotalCalls < MaxCalls
    /\ calls' = [calls EXCEPT ![t] = @ + 1]
    /\ pc' = [pc EXCEPT ![t] = "fast"]
    /\ ret' = [ret EXCEPT ![t] = NoRet]
    /\ stale' = [stale EXCEPT ![t] = NoneReturned]
    /\ UNCHANGED <<tmVars, now, data, new_data>>
    /\ UNCHANGED notToken

\* line 186: `self.token_data and ...` then `data = self.token_data` (line 106)
FastRead(t) ==
    /\ pc[t] = "fast"
    /\ data' = [data EXCEPT ![t] = token_data]
    /\ IF token_data = EmptyDict
       THEN /\ pc' = [pc EXCEPT ![t] = "acquire"]
            /\ UNCHANGED stale
       ELSE /\ pc' = [pc EXCEPT ![t] = "fast_time"]
            /\ UNCHANGED stale
    /\ UNCHANGED <<tmVars, now, new_data, ret, calls>>
    /\ UNCHANGED notToken

\* lines 113-129 on the fast path: the comparison with time.time(), after
\* which the frame of _is_expired (and its local `data`) is gone
FastTime(t) ==
    /\ pc[t] = "fast_time"
    /\ IF is_expired(data[t], now)
       THEN /\ pc' = [pc EXCEPT ![t] = "acquire"]
            /\ UNCHANGED stale
       ELSE /\ pc' = [pc EXCEPT ![t] = "fast_ret"]
            /\ stale' = [stale EXCEPT ![t] = FALSE]
    /\ data' = [data EXCEPT ![t] = EmptyDict]
    /\ UNCHANGED <<tmVars, now, new_data, ret, calls>>
    /\ UNCHANGED notToken

\* what `self.token_data["access_token"]` evaluates to
read_access_token(d) ==
    IF d["access_token"] = Absent THEN Raised("KeyError")
    ELSE Returned(d["access_token"])

\* line 187: return self.token_data["access_token"]
FastReturn(t) ==
    /\ pc[t] = "fast_ret"
    /\ ret' = [ret EXCEPT ![t] = read_access_token(token_data)]
    /\ pc' = [pc EXCEPT ![t] = "idle"]
    /\ UNCHANGED <<tmVars, now, data, new_data, calls, stale>>
    /\ UNCHANGED notToken

AcquireUnguarded(t) ==
    /\ pc[t] = "acquire"
    /\ lock' = t
    /\ pc' = [pc EXCEPT ![t] = "chk"]
    /\ UNCHANGED <<token_data, file, url_set, posts, hist, now, data,
                   new_data, ret, calls, stale>>
    /\ UNCHANGED notToken

\* line 190: with TokenManager._lock (blocks while another thread holds it)
Acquire(t) ==
    /\ pc[t] = "acquire"
    /\ lock = 0
    /\ lock' = t
    /\ pc' = [pc EXCEPT ![t] = "chk"]
    /\ UNCHANGED <<token_data, file, url_set, posts, hist, now, data,
                   new_data, ret, calls, stale>>
    /\ UNCHANGED notToken

RecheckNone(t) ==
    /\ pc[t] = "chk"
    /\ pc' = [pc EXCEPT ![t] = "refresh"]
    /\ UNCHANGED <<token_data, file, lock, url_set, posts, hist, now,
                   data, new_data, ret, calls, stale>>
    /\ UNCHANGED notToken

\* lines 192-193: the re-check under the lock (the record cannot change while
\* the lock is held); a fresh record is returned and the with block left
Recheck(t) ==
    /\ pc[t] = "chk"
    /\ IF token_data = EmptyDict \/ is_expired(token_data, now)
       THEN /\ pc' = [pc EXCEPT ![t] = "refresh"]
            /\ UNCHANGED <<ret, lock>>
       ELSE /\ ret' = [ret EXCEPT ![t] = read_access_token(token_data)]
            /\ pc' = [pc EXCEPT ![t] = "idle"]
            /\ lock' = 0
    /\ UNCHANGED <<token_data, file, url_set, posts, hist, now, data,
                   new_data, calls, stale>>
    /\ UNCHANGED notToken

RefreshPostKeepsLock(t) ==
    /\ pc[t] = "refresh"
    /\ IF ~url_set
       THEN /\ ret' = [ret EXCEPT ![t] = Raised("ValueError")]
            /\ pc' = [pc EXCEPT ![t] = "idle"]
            /\ UNCHANGED <<posts, hist, new_data>>
       ELSE /\ posts' = posts + 1
            /\ \/ /\ ret' = [ret EXCEPT ![t] = Raised("RequestException")]
                  /\ pc' = [pc EXCEPT ![t] = "idle"]
                  /\ hist' = Append(hist, EmptyDict)
                  /\ UNCHANGED new_data
               \/ \E shape \in ResponseShapes :
                  /\ new_data' = [new_data EXCEPT ![t] =
                                    carry_over(ResponseBody(shape, posts + 1))]
                  /\ pc' = [pc EXCEPT ![t] = "save"]
                  /\ UNCHANGED <<ret, hist>>
    /\ UNCHANGED <<token_data, file, lock, url_set, now, data, calls, stale>>
    /\ UNCHANGED notToken

\* _refresh lines 143-168: the env lookup, the POST, raise_for_status and the
\* refresh_token default. An exception leaves the with block of get_token.
RefreshPost(t) ==
    /\ pc[t] = "refresh"
    /\ IF ~url_set
       THEN /\ ret' = [ret EXCEPT ![t] = Raised("ValueError")]
            /\ pc' = [pc EXCEPT ![t] = "idle"]
            /\ lock' = 0
            /\ UNCHANGED <<posts, hist, new_data>>
       ELSE /\ posts' = posts + 1
            /\ \/ /\ ret' = [ret EXCEPT ![t] = Raised("RequestException")]
                  /\ pc' = [pc EXCEPT ![t] = "idle"]
                  /\ lock' = 0
                  /\ hist' = Append(hist, EmptyDict)
                  /\ UNCHANGED new_data
               \/ \E shape \in ResponseShapes :
                  /\ new_data' = [new_data EXCEPT ![t] =
                                    carry_over(ResponseBody(shape, posts + 1))]
                  /\ pc' = [pc EXCEPT ![t] = "save"]
                  /\ UNCHANGED <<ret, lock, hist>>
    /\ UNCHANGED <<token_data, file, url_set, now, data, calls, stale>>
    /\ UNCHANGED notToken

SaveDumpMerged(t) ==
    /\ pc[t] = "save"
    /\ new_data' = [new_data EXCEPT ![t]["obtained_at"] = now]
    /\ hist' = Append(hist, new_data'[t])
    /\ file' = JsonFile([k \in Keys |->
                    IF new_data'[t][k] = Absent THEN file.rec[k]
                    ELSE new_data'[t][k]])
    /\ pc' = [pc EXCEPT ![t] = "save_mem"]
    /\ UNCHANGED <<token_data, lock, url_set, posts, now, data,
                   ret, calls, stale>>
    /\ UNCHANGED notToken

\* _save lines 91-95: data["obtained_at"] = int(time.time()), then
\* json.dump(data, f) on the file opened with "w"
SaveDump(t) ==
    /\ pc[t] = "save"
    /\ new_data' = [new_data EXCEPT ![t]["obtained_at"] = now]
    /\ hist' = Append(hist, new_data'[t])
    /\ file' = JsonFile(new_data'[t])
    /\ pc' = [pc EXCEPT ![t] = "save_mem"]
    /\ UNCHANGED <<token_data, lock, url_set, posts, now, data,
                   ret, calls, stale>>
    /\ UNCHANGED notToken

SavePublishPartial(t) ==
    /\ pc[t] = "save_mem"
    /\ token_data' =
          [token_data EXCEPT !["access_token"] = new_data[t]["access_token"]]
    /\ pc' = [pc EXCEPT ![t] = "finish"]
    /\ UNCHANGED <<file, lock, url_set, posts, hist, now, data, new_data,
                   ret, calls, stale>>
    /\ UNCHANGED notToken

\* _save line 97: self.token_data = data
SavePublish(t) ==
    /\ pc[t] = "save_mem"
    /\ token_data' = new_data[t]
    /\ pc' = [pc EXCEPT ![t] = "finish"]
    /\ UNCHANGED <<file, lock, url_set, posts, hist, now, data, new_data,
                   ret, calls, stale>>
    /\ UNCHANGED notToken

\* _refresh line 171 and get_token lines 196-198: new_data["access_token"],
\* the write into self.token_data, the return and the release of the lock
RefreshReturn(t) ==
    /\ pc[t] = "finish"
    /\ ret' = [ret EXCEPT ![t] = read_access_token(new_data[t])]
    /\ IF new_data[t]["access_token"] = Absent
       THEN UNCHANGED token_data
       ELSE token_data' =
                [token_data EXCEPT !["access_token"] = new_data[t]["access_token"]]
    /\ lock' = 0
    /\ pc' = [pc EXCEPT ![t] = "idle"]
    /\ new_data' = [new_data EXCEPT ![t] = EmptyDict]
    /\ UNCHANGED <<file, url_set, posts, hist, now, data, calls, stale>>
    /\ UNCHANGED notToken

\* the clock advances one second
Tick ==
    /\ now < MaxNow
    /\ now' = now + 1
    /\ UNCHANGED <<tmVars, pc, data, new_data, ret, calls, stale>>
    /\ UNCHANGED notToken

get_token(t) ==
    \/ GetTokenCall(t)
    \/ FastRead(t)
    \/ FastTime(t)
    \/ FastReturn(t)
    \/ Acquire(t)
    \/ Recheck(t)
    \/ RefreshPost(t)
    \/ SaveDump(t)
    \/ SavePublish(t)
    \/ RefreshReturn(t)

TokenNext ==
    \/ \E t \in Threads : get_token(t)
    \/ Tick

Next == TokenNext

Spec == Init /\ [][Next]_vars

\* =====================================================================
\* _is_expired as a function of the record and the clock
\* =====================================================================
ObtainedValues == {Absent, BadValue} \cup 0..MaxNow
ExpiresValues ==
    {Absent, BadValue} \cup (SAFETY_MARGIN - 1)..(SAFETY_MARGIN + MaxNow)

\* records _is_expired may be asked about
ExpiryRecords ==
    {EmptyDict} \cup
    { [FileRecord(e) EXCEPT !["obtained_at"] = o] :
        o \in ObtainedValues, e \in ExpiresValues }

ExpiryInit ==
    /\ token_data \in ExpiryRecords
    /\ now \in 0..MaxNow
    /\ file = NoFile
    /\ lock = 0
    /\ url_set = TRUE
    /\ posts = 0
    /\ hist = <<>>
    /\ ThreadsIdle
    /\ ExpiryIdle
    /\ RequestIdle
    /\ BarsIdle
    /\ MergeIdle
    /\ BulkIdle
    /\ StreamIdle

\* a call of tm._is_expired() (lines 99-129)
IsExpiredCall ==
    /\ expired = "unset"
    /\ expired' = IF is_expired(token_data, now) THEN "True" ELSE "False"
    /\ UNCHANGED <<tmVars, now, thVars>>
    /\ UNCHANGED notExpiry

ExpiryNext == IsExpiredCall

SpecExpired == ExpiryInit /\ [][ExpiryNext]_vars

\* =====================================================================
\* BaseAPIClient.make_request and MarketDataAPI._request_with_retry, run by
\* one caller over the TokenManager above
\* =====================================================================

\* answers of the token endpoint to one POST
TokenOutcomes ==
    { [kind |-> "body", status |-> 200, shape |-> sh] : sh \in ResponseShapes }
    \cup { [kind |-> "HTTPError", status |-> st, shape |-> EmptyDict] :
             st \in {400, 500} }
    \cup { [kind |-> "ConnectionError", status |-> 0, shape |-> EmptyDict] }

\* the exception `d["access_token"]` raises, "none" when it yields a token
access_exc(d) == IF d["access_token"] = Absent THEN "KeyError" ELSE "none"

\* _refresh with _save (lines 131-171) run without interruption on record td
\* at time t: the exception raised ("none" if it returns), the record then in
\* memory, whether the file was written, the POSTs issued, the token returned
refresh_seq(td, t, us, o, tokid) ==
    IF ~us
    THEN [exc |-> "ValueError", status |-> 0, td |-> td, written |-> FALSE,
          posted |-> 0, tok |-> Absent]
    ELSE IF o.kind # "body"
    THEN [exc |-> o.kind, status |-> o.status, td |-> td, written |-> FALSE,
          posted |-> 1, tok |-> Absent]
    ELSE LET nd == [carry_over(ResponseBody(o.shape, tokid))
                        EXCEPT !["obtained_at"] = t]
         IN [exc |-> access_exc(nd), status |-> 0, td |-> nd,
             written |-> TRUE, posted |-> 1, tok |-> nd["access_token"]]

get_token_seq_always(td, t, us, o, tokid) == refresh_seq(td, t, us, o, tokid)

\* get_token (lines 185-198) run by a single caller
get_token_seq(td, t, us, o, tokid) ==
    IF td # EmptyDict /\ ~is_expired(td, t)
    THEN [exc |-> access_exc(td), status |-> 0, td |-> td,
          written |-> FALSE, posted |-> 0, tok |-> td["access_token"]]
    ELSE refresh_seq(td, t, us, o, tokid)

\* TokenManager.refresh_token(), called by _request_with_retry line 146: a
\* refresh request made whatever the state of the record
refresh_token_seq(td, t, us, o, tokid) == refresh_seq(td, t, us, o, tokid)

\* the effect of a token call on the TokenManager
ApplyToken(r) ==
    /\ token_data' = r.td
    /\ file' = IF r.written THEN JsonFile(r.td) ELSE file
    /\ posts' = posts + r.posted

\* answers to one requests.get: a status with a JSON body, or a network error
Statuses == {200, 401, 404, 500}
GetOutcomes ==
    { [kind |-> "response", status |-> 200, body |-> b] :
        b \in {"data", "empty", "nobars"} }
    \cup { [kind |-> "response", status |-> st, body |-> "error"] :
             st \in Statuses \ {200} }
    \cup { [kind |-> "ConnectionError", status |-> 0, body |-> "none"] }

raise_for_status_5xx(st) == 500 <= st /\ st < 600

\* requests.Response.raise_for_status raises HTTPError for 4xx and 5xx
raise_for_status(st) == 400 <= st /\ st < 600

Exception(kind, st) == [kind |-> kind, status |-> st, id |-> 0, body |-> "none"]
Json(body, id) == [kind |-> "json", status |-> 200, id |-> id, body |-> body]

\* make_request lines 55-57 on the response o of GET number id
respond(o, id) ==
    IF raise_for_status(o.status) THEN Exception("HTTPError", o.status)
    ELSE Json(o.body, id)

LogEntry(o, id) == [status |-> o.status, auth |-> headers, id |-> id]

\* _request_with_retry is called (line 125); the caller's header holds token 0
RetryCall ==
    /\ rq_pc = "idle"
    /\ \E n \in 0..MaxRetries :
        /\ retries' = n
        /\ IF n = 0
           THEN /\ rq_pc' = "done"
                /\ rq_out' = Exception("RuntimeError", 0)
           ELSE /\ rq_pc' = "attempt"
                /\ UNCHANGED rq_out
    /\ UNCHANGED <<attempt, headers, gets, mr_log, mr_posts, mr_out, att_log,
                   sleeps>>
    /\ UNCHANGED <<token_data, file, posts, now>>
    /\ UNCHANGED notRequest

\* make_request lines 49-57: the first GET of an attempt
MakeRequestGet ==
    /\ rq_pc = "attempt"
    /\ \E o \in GetOutcomes :
        /\ gets' = gets + 1
        /\ mr_log' = <<LogEntry(o, gets + 1)>>
        /\ mr_posts' = posts
        /\ IF o.kind = "ConnectionError"
           THEN /\ mr_out' = Exception("ConnectionError", 0)
                /\ rq_pc' = "handle"
           ELSE IF o.status = 401
           THEN /\ mr_out' = NoOutcome
                /\ rq_pc' = "token"
           ELSE /\ mr_out' = respond(o, gets + 1)
                /\ rq_pc' = "handle"
    /\ UNCHANGED <<retries, attempt, headers, att_log, sleeps, rq_out>>
    /\ UNCHANGED <<token_data, file, posts, now>>
    /\ UNCHANGED notRequest

\* make_request lines 51-52: get_token() and the new Authorization header
MakeRequestToken ==
    /\ rq_pc = "token"
    /\ \E o \in TokenOutcomes :
        LET r == get_token_seq(token_data, now, url_set, o, posts + 1)
        IN /\ ApplyToken(r)
           /\ IF r.exc = "none"
              THEN /\ headers' = r.tok
                   /\ rq_pc' = "retry_get"
                   /\ UNCHANGED mr_out
              ELSE /\ mr_out' = Exception(r.exc, r.status)
                   /\ rq_pc' = "handle"
                   /\ UNCHANGED headers
    /\ UNCHANGED <<retries, attempt, gets, mr_log, mr_posts, att_log, sleeps,
                   rq_out, now>>
    /\ UNCHANGED notRequest

\* make_request lines 53-57: the GET repeated after a 401
MakeRequestRetryGet ==
    /\ rq_pc = "retry_get"
    /\ \E o \in GetOutcomes :
        /\ gets' = gets + 1
        /\ mr_log' = Append(mr_log, LogEntry(o, gets + 1))
        /\ mr_out' = IF o.kind = "ConnectionError"
                     THEN Exception("ConnectionError", 0)
                     ELSE respond(o, gets + 1)
        /\ rq_pc' = "handle"
    /\ UNCHANGED <<retries, attempt, headers, mr_posts, att_log, sleeps, rq_out>>
    /\ UNCHANGED <<token_data, file, posts, now>>
    /\ UNCHANGED notRequest

is_empty_payload_strict(body) == body = "empty"

\* `not res or ("Bars" in res and not res["Bars"])`, line 134
is_empty_payload(body) == body \in {"empty", "nobars"}

HasNextAttemptLate == attempt < retries

\* `attempt < retries - 1`, lines 135, 145, 151 and 158
HasNextAttempt == attempt < retries - 1

ContinueWithoutSleep ==
    /\ sleeps' = Append(sleeps, 0)
    /\ attempt' = attempt + 1
    /\ rq_pc' = "attempt"
    /\ UNCHANGED rq_out

\* time.sleep(backoff * (attempt + 1)); continue
SleepAndContinue ==
    /\ sleeps' = Append(sleeps, attempt + 1)
    /\ attempt' = attempt + 1
    /\ rq_pc' = "attempt"
    /\ UNCHANGED rq_out

\* return res / raise
Finish ==
    /\ sleeps' = Append(sleeps, 0)
    /\ rq_out' = mr_out
    /\ rq_pc' = "done"
    /\ UNCHANGED attempt

\* _request_with_retry lines 133-161: what follows make_request in the loop
\* body, for its result or its exception
Handle ==
    /\ rq_pc = "handle"
    /\ att_log' = Append(att_log, mr_out)
    /\ IF mr_out.kind = "json"
       THEN IF is_empty_payload(mr_out.body) /\ HasNextAttempt
            THEN SleepAndContinue
            ELSE Finish
       ELSE IF mr_out.kind = "HTTPError"
       THEN IF mr_out.status = 401 /\ HasNextAttempt
            THEN /\ sleeps' = Append(sleeps, 0)
                 /\ rq_pc' = "refresh_token"
                 /\ UNCHANGED <<attempt, rq_out>>
            ELSE IF mr_out.status >= 500 /\ HasNextAttempt
            THEN SleepAndContinue
            ELSE Finish
       ELSE IF HasNextAttempt
            THEN SleepAndContinue
            ELSE Finish
    /\ UNCHANGED <<retries, headers, gets, mr_log, mr_posts, mr_out>>
    /\ UNCHANGED <<token_data, file, posts, now>>
    /\ UNCHANGED notRequest

\* _request_with_retry lines 146-148: refresh_token(), the new header, continue;
\* an exception raised here leaves _request_with_retry
RetryRefreshToken ==
    /\ rq_pc = "refresh_token"
    /\ \E o \in TokenOutcomes :
        LET r == refresh_token_seq(token_data, now, url_set, o, posts + 1)
        IN /\ ApplyToken(r)
           /\ IF r.exc = "none"
              THEN /\ headers' = r.tok
                   /\ attempt' = attempt + 1
                   /\ rq_pc' = "attempt"
                   /\ UNCHANGED rq_out
              ELSE /\ rq_out' = Exception(r.exc, r.status)
                   /\ rq_pc' = "done"
                   /\ UNCHANGED <<headers, attempt>>
    /\ UNCHANGED <<retries, gets, mr_log, mr_posts, mr_out, att_log, sleeps, now>>
    /\ UNCHANGED notRequest

\* the clock advances while the request runs
RequestTick ==
    /\ now < MaxNow
    /\ now' = now + 1
    /\ UNCHANGED <<token_data, file, posts, rqVars>>
    /\ UNCHANGED notRequest

RequestNext ==
    \/ RetryCall
    \/ MakeRequestGet
    \/ MakeRequestToken
    \/ MakeRequestRetryGet
    \/ Handle
    \/ RetryRefreshToken
    \/ RequestTick

SpecRequest == Init /\ [][RequestNext]_vars

\* =====================================================================
\* Properties of TokenManager (specification Spec)
\* =====================================================================

\* every thread has finished exactly one get_token call; the calls overlapped
\* (each began before any had returned) and each found the record absent or
\* expired at its lock-free check
FirstCallsDone ==
    \A t \in Threads : calls[t] = 1 /\ pc[t] = "idle" /\ stale[t]

InLockedSection(t) == pc[t] \in {"chk", "refresh", "save", "save_mem", "finish"}
InRefresh(t) == pc[t] \in {"refresh", "save", "save_mem", "finish"}

\* C2: at most one caller is inside the refresh section (POST plus _save);
\* while one is, it holds the lock and every other caller that needs a
\* refresh waits in front of the lock.
C2_OneRefreshInFlight ==
    \A t \in Threads :
        InRefresh(t) =>
            /\ lock = t
            /\ \A u \in Threads \ {t} : ~InLockedSection(u)

C2_Witness ==
    \E t, u \in Threads :
        /\ t # u
        /\ pc[t] = "save_mem"
        /\ pc[u] = "acquire"

\* records a TokenManager can hold right after construction
LoadedRecords == { load(f) : f \in InitFiles }

\* d is the complete record of a finished refresh: stamped, with its
\* refresh_token defaulted
RefreshedRecord(d) ==
    /\ \E i \in 1..Len(hist) : hist[i] # EmptyDict /\ d = hist[i]
    /\ d["refresh_token"] # Absent
    /\ d["obtained_at"] # Absent

WholeRecord(d) == d \in LoadedRecords \/ RefreshedRecord(d)

\* C3: the in-memory record, and every copy a lock-free reader took of it,
\* is a whole record: the one loaded at construction or the complete record
\* of one refresh, never a mixture and never a record still lacking its
\* refresh_token default or obtained_at.
C3_RecordNeverPartial ==
    /\ WholeRecord(token_data)
    /\ \A t \in Threads : pc[t] = "fast_time" => WholeRecord(data[t])

C3_Witness ==
    \E t, u \in Threads :
        /\ pc[t] = "fast_time"
        /\ pc[u] = "finish"
        /\ data[t] # token_data
        /\ RefreshedRecord(token_data)

\* C5 as stated: a get_token call that found the record present and
\* unexpired returns that record's access_token, and its return leaves the
\* lock, the request count, the token file and the record untouched.
C5_FastPathReturnsToken ==
    [][\A t \in Threads :
         (pc[t] = "fast_ret" /\ pc'[t] = "idle") =>
            /\ token_data["access_token"] # Absent
            /\ ret'[t] = Returned(token_data["access_token"])
            /\ UNCHANGED <<lock, posts, file, token_data>>]_vars

\* =====================================================================
\* Properties of _is_expired (specification SpecExpired)
\* =====================================================================

\* C4: _is_expired() is true exactly when the record is empty, or lacks
\* obtained_at or expires_in, or now >= obtained_at + expires_in - 30 (so it
\* is true at that instant and false one second earlier); a value int()
\* rejects also makes it true.
C4_ExpiredIff ==
    expired # "unset" =>
        IF ~IsNumber(token_data["obtained_at"]) \/ ~IsNumber(token_data["expires_in"])
        THEN expired = "True"
        ELSE (expired = "True") <=>
                \/ token_data = EmptyDict
                \/ token_data["obtained_at"] = Absent
                \/ token_data["expires_in"] = Absent
                \/ now >= token_data["obtained_at"] + token_data["expires_in"] - 30

C4_Witness ==
    /\ expired = "True"
    /\ token_data["obtained_at"] >= 0
    /\ token_data["expires_in"] >= 0
    /\ now = token_data["obtained_at"] + token_data["expires_in"] - 30

\* =====================================================================
\* Properties of make_request and _request_with_retry (SpecRequest)
\* =====================================================================

\* C6 as stated: a make_request call whose first GET answers 401 and whose
\* second answers 200 has performed exactly one token refresh, has sent the
\* second GET with the token that refresh obtained, and returns the payload
\* of the second response.
C6_OneRefreshOn401 ==
    (/\ rq_pc = "handle"
     /\ Len(mr_log) = 2
     /\ mr_log[1].status = 401
     /\ mr_log[2].status = 200)
    => /\ posts = mr_posts + 1
       /\ mr_log[2].auth = posts
       /\ mr_out.kind = "json"
       /\ mr_out.id = mr_log[2].id

EmptyAnswer(o) == o.kind = "json" /\ o.body \in {"empty", "nobars"}
DataAnswer(o) == o.kind = "json" /\ o.body = "data"

\* C8: _request_with_retry makes at most `retries` attempts and returns the
\* payload of the first attempt whose 200 answer is non-empty, the earlier
\* ones being empty ({} or an empty Bars list); it goes on to a further
\* attempt after an empty answer while one is left, so an empty payload is
\* returned by the last attempt only.
C8_FirstNonEmptyReturned ==
    /\ Len(att_log) <= retries
    /\ rq_pc = "done" =>
        /\ \A i \in 1..Len(att_log) :
              (DataAnswer(att_log[i]) /\ \A j \in 1..(i - 1) : EmptyAnswer(att_log[j]))
              => (rq_out = att_log[i] /\ Len(att_log) = i)
        /\ EmptyAnswer(rq_out) => Len(att_log) = retries

C8_Witness ==
    /\ rq_pc = "done"
    /\ retries = 3
    /\ Len(att_log) = 3
    /\ att_log[1].body = "empty"
    /\ att_log[2].body = "empty"
    /\ att_log[3].body = "data"
    /\ rq_out = att_log[3]

TransientFailure(o) ==
    \/ o.kind = "HTTPError" /\ o.status >= 500
    \/ o.kind = "ConnectionError"

\* C9: when every attempt fails with a status >= 500 or a network error,
\* _request_with_retry makes exactly `retries` attempts, never one more, and
\* ends by raising the error of the last one; it returns no payload.
C9_ExhaustedReraises ==
    (retries >= 1 /\ \A i \in 1..Len(att_log) : TransientFailure(att_log[i]))
    => /\ Len(att_log) <= retries
       /\ attempt < retries
       /\ rq_out.kind # "json"
       /\ rq_pc = "done" => (Len(att_log) = retries /\ rq_out = att_log[retries])

C9_Witness ==
    /\ rq_pc = "done"
    /\ retries = 3
    /\ Len(att_log) = 3
    /\ att_log[1].kind = "ConnectionError"
    /\ att_log[2].kind = "HTTPError" /\ att_log[2].status = 500
    /\ att_log[3].kind = "HTTPError" /\ att_log[3].status = 500
    /\ rq_out = att_log[3]

\* =====================================================================
\* get_bars_between: the plan of requests
\*   MarketDataAPI.get_bars_between (tradestation_python_client/endpoints/
\*   mkt_data.py) and the earlier module-level get_bars_between
\*   (endpoints/market_data.py).  A date is a day number, np.arange over
\*   datetime64[D] being the sequence of consecutive days.
\* =====================================================================
ts_max_bars_thresh == 57600

valid_units == {"Minute", "Daily", "Weekly", "Monthly"}
Units == valid_units \cup {"Hourly"}

\* lines 243-248
multiplier(unit) ==
    CASE unit = "Minute" -> 1440
      [] unit = "Daily" -> 365
      [] unit = "Weekly" -> 52
      [] OTHER -> 12

\* np.arange(f_date, l_date + 1 day), lines 237-241: empty when l < f
date_range(f, l) == [i \in 1..(IF l >= f THEN l - f + 1 ELSE 0) |-> f + i - 1]

Min(a, b) == IF a <= b THEN a ELSE b

chunk_dates_overlap(dates, max_days) ==
    LET n == Len(dates)
    IN [k \in 1..((n + max_days - 1) \div max_days) |->
            <<dates[(k - 1) * max_days + 1],
              dates[Min((k - 1) * max_days + max_days + 1, n)]>>]

\* _chunk_dates: for i in range(0, n, max_days), the pair
\* (dates[i], dates[min(i + max_days - 1, n - 1)]); here i = (k-1)*max_days
\* and the sequence is indexed from 1
chunk_dates(dates, max_days) ==
    LET n == Len(dates)
    IN [k \in 1..((n + max_days - 1) \div max_days) |->
            <<dates[(k - 1) * max_days + 1],
              dates[Min((k - 1) * max_days + max_days, n)]>>]

fits_single_call_strict(n, mult, interval) ==
    n * mult < ts_max_bars_thresh * interval

\* bars_est <= ts_max_bars_thresh with bars_est = n * mult / interval
fits_single_call(n, mult, interval) == n * mult <= ts_max_bars_thresh * interval

max_days_rounded_up(mult, interval) ==
    (ts_max_bars_thresh * interval + mult - 1) \div mult

\* int(ts_max_bars_thresh * interval / multiplier)
max_days_of(mult, interval) == (ts_max_bars_thresh * interval) \div mult

\* the argument `interval` is the number gb_args.interval / gb_args.den: a
\* whole number of minutes, or (nothing converts or checks the argument) a
\* fraction such as 0.001
IntervalDens == {1, 1000}

\* multiplier / interval as the fraction (multiplier * den) / interval
scaled(mult) == mult * gb_args.den

\* a call of either get_bars_between
GetBarsCall ==
    /\ gb_pc = "idle"
    /\ \E lg \in BOOLEAN, f \in 0..MaxFirstDate, l \in 0..MaxLastDate,
          u \in Units, iv \in 1..MaxInterval, dn \in IntervalDens :
        gb_args' = [legacy |-> lg, first_date |-> f, last_date |-> l,
                    unit |-> u, interval |-> iv, den |-> dn]
    /\ gb_pc' = IF gb_args'.legacy THEN "legacy" ELSE "validate"
    /\ UNCHANGED <<gb_exc, gb_calls, chunks, token_data, file, posts>>
    /\ UNCHANGED notBars

GetBarsValidateTokenFirst ==
    /\ gb_pc = "validate"
    /\ IF gb_args.unit \notin valid_units
       THEN /\ gb_exc' = "ValueError"
            /\ gb_pc' = "raised"
            /\ UNCHANGED <<token_data, file, posts, gb_calls>>
       ELSE \E o \in TokenOutcomes :
            LET r == get_token_seq(token_data, now, url_set, o, posts + 1)
            IN /\ ApplyToken(r)
               /\ gb_calls' = gb_calls + 1
               /\ gb_exc' = IF r.exc # "none" THEN r.exc
                             ELSE IF gb_args.first_date > gb_args.last_date
                             THEN "Exception" ELSE "none"
               /\ gb_pc' = IF gb_exc' = "none" THEN "plan" ELSE "raised"
    /\ UNCHANGED <<gb_args, chunks>>
    /\ UNCHANGED notBars

\* MarketDataAPI.get_bars_between lines 217-235: the unit and the order of the
\* dates are checked, then the token is asked for
GetBarsValidate ==
    /\ gb_pc = "validate"
    /\ IF gb_args.unit \notin valid_units
       THEN /\ gb_exc' = "ValueError"
            /\ gb_pc' = "raised"
            /\ UNCHANGED <<token_data, file, posts, gb_calls>>
       ELSE IF gb_args.first_date > gb_args.last_date
       THEN /\ gb_exc' = "Exception"
            /\ gb_pc' = "raised"
            /\ UNCHANGED <<token_data, file, posts, gb_calls>>
       ELSE \E o \in TokenOutcomes :
            LET r == get_token_seq(token_data, now, url_set, o, posts + 1)
            IN /\ ApplyToken(r)
               /\ gb_calls' = gb_calls + 1
               /\ gb_exc' = r.exc
               /\ gb_pc' = IF r.exc = "none" THEN "plan" ELSE "raised"
    /\ UNCHANGED <<gb_args, chunks>>
    /\ UNCHANGED notBars

GetBarsPlanEmpty ==
    /\ gb_pc = "plan"
    /\ LET dates == date_range(gb_args.first_date, gb_args.last_date)
           mult == scaled(multiplier(gb_args.unit))
           max_days == max_days_of(mult, gb_args.interval)
       IN IF fits_single_call(Len(dates), mult, gb_args.interval)
          THEN /\ gb_pc' = "single"
               /\ chunks' = <<<<gb_args.first_date, gb_args.last_date>>>>
          ELSE IF max_days = 0
          THEN /\ gb_pc' = "chunked"
               /\ chunks' = <<>>
          ELSE /\ gb_pc' = "chunked"
               /\ chunks' = chunk_dates(dates, max_days)
    /\ UNCHANGED <<gb_args, gb_exc, gb_calls, token_data, file, posts>>
    /\ UNCHANGED notBars

\* MarketDataAPI.get_bars_between lines 237-271: one request for the whole
\* range when the estimate fits, else the chunks; _chunk_dates line 76:
\* range(0, n, max_days) raises ValueError when max_days is 0
GetBarsPlan ==
    /\ gb_pc = "plan"
    /\ LET dates == date_range(gb_args.first_date, gb_args.last_date)
           mult == scaled(multiplier(gb_args.unit))
           max_days == max_days_of(mult, gb_args.interval)
       IN IF fits_single_call(Len(dates), mult, gb_args.interval)
          THEN /\ gb_pc' = "single"
               /\ chunks' = <<<<gb_args.first_date, gb_args.last_date>>>>
               /\ UNCHANGED gb_exc
          ELSE IF max_days = 0
          THEN /\ gb_pc' = "raised"
               /\ gb_exc' = "ValueError"
               /\ UNCHANGED chunks
          ELSE /\ gb_pc' = "chunked"
               /\ chunks' = chunk_dates(dates, max_days)
               /\ UNCHANGED gb_exc
    /\ UNCHANGED <<gb_args, gb_calls, token_data, file, posts>>
    /\ UNCHANGED notBars

\* endpoints/market_data.py lines 187-206: only Minute bars are ever chunked
LegacyPlan ==
    /\ gb_pc = "legacy"
    /\ LET dates == date_range(gb_args.first_date, gb_args.last_date)
           max_days == max_days_of(scaled(1440), gb_args.interval)
       IN IF gb_args.unit # "Minute"
             \/ fits_single_call(Len(dates), scaled(1440), gb_args.interval)
          THEN /\ gb_pc' = "single"
               /\ chunks' = <<<<gb_args.first_date, gb_args.last_date>>>>
               /\ UNCHANGED gb_exc
          ELSE IF max_days = 0
          THEN /\ gb_pc' = "raised"
               /\ gb_exc' = "ValueError"
               /\ UNCHANGED chunks
          ELSE /\ gb_pc' = "chunked"
               /\ chunks' = chunk_dates(dates, max_days)
               /\ UNCHANGED gb_exc
    /\ UNCHANGED <<gb_args, gb_calls, token_data, file, posts>>
    /\ UNCHANGED notBars

BarsNext ==
    \/ GetBarsCall
    \/ GetBarsValidate
    \/ GetBarsPlan
    \/ LegacyPlan

SpecBars == Init /\ [][BarsNext]_vars

\* C10: when the estimate exceeds 57,600 bars, the chunks get_bars_between
\* plans start at first_date, end at last_date, are in ascending order, each
\* starts the day after the previous one ends, and every day of
\* [first_date, last_date] lies in exactly one of them.
C10_ChunksPartitionRange ==
    gb_pc = "chunked" =>
        LET f == gb_args.first_date
            l == gb_args.last_date
            K == Len(chunks)
        IN /\ K >= 1
           /\ chunks[1][1] = f
           /\ chunks[K][2] = l
           /\ \A k \in 1..K : chunks[k][1] <= chunks[k][2]
           /\ \A k \in 1..(K - 1) : chunks[k + 1][1] = chunks[k][2] + 1
           /\ \A d \in f..l :
                Cardinality({k \in 1..K : chunks[k][1] <= d /\ d <= chunks[k][2]}) = 1

C10_Witness ==
    /\ gb_pc = "chunked"
    /\ ~gb_args.legacy
    /\ gb_args.unit = "Minute"
    /\ gb_args.interval = 1
    /\ chunks = <<<<0, 39>>, <<40, 79>>, <<80, 99>>>>

ChunkSpan(k) == chunks[k][2] - chunks[k][1] + 1

\* C11: every chunk of the plan spans at most floor(57,600 * interval /
\* multiplier) days, every chunk but the last spans exactly that many, the
\* estimate days * multiplier / interval of each chunk is at most 57,600,
\* and a 120-day range of 1-minute bars gives three chunks of 40 days.
C11_ChunkSizes ==
    gb_pc = "chunked" =>
        LET iv == gb_args.interval
            mult == gb_args.den * (CASE gb_args.unit = "Minute" -> 1440
                                     [] gb_args.unit = "Daily" -> 365
                                     [] gb_args.unit = "Weekly" -> 52
                                     [] OTHER -> 12)
            limit == (57600 * iv) \div mult
            K == Len(chunks)
        IN /\ \A k \in 1..K : ChunkSpan(k) <= limit
           /\ \A k \in 1..(K - 1) : ChunkSpan(k) = limit
           /\ \A k \in 1..K : ChunkSpan(k) * mult <= 57600 * iv
           /\ (/\ gb_args.unit = "Minute"
               /\ iv = 1
               /\ gb_args.den = 1
               /\ gb_args.last_date - gb_args.first_date + 1 = 120)
              => (K = 3 /\ \A k \in 1..K : ChunkSpan(k) = 40)

C11_Witness ==
    /\ gb_pc = "chunked"
    /\ ~gb_args.legacy
    /\ gb_args.unit = "Minute"
    /\ gb_args.interval = 1
    /\ chunks = <<<<0, 39>>, <<40, 79>>, <<80, 119>>>>

\* =====================================================================
\* get_bars_between: the concurrent fetch of the chunks and the merge
\*   MarketDataAPI.get_bars_between lines 273-318 and the module-level
\*   get_bars_between (endpoints/market_data.py lines 211-233).
\*   A bar is [t, v]: its instant and the rest of its fields.  All the bars
\*   of a call carry the instant under the same key, mg_key: "Time" (the key
\*   the sort reads) or "TimeStamp" (the key toolbox.bars_to_dataframe
\*   requires of the bars of a response).
\* =====================================================================
Bar(t, v) == [t |-> t, v |-> v]

\* what the fetch of chunk c may end with: an exception once the retries are
\* used up, {} , {"Bars": []}, or bars, out of order within the response,
\* sharing an instant with the next chunk's bars
ChunkResponses(c) ==
    { [kind |-> "raise", body |-> "none", Bars |-> <<>>],
      [kind |-> "json", body |-> "empty", Bars |-> <<>>],
      [kind |-> "json", body |-> "nobars", Bars |-> <<>>],
      [kind |-> "json", body |-> "data",
       Bars |-> <<Bar(2 * c, 0), Bar(2 * c - 1, 0)>>],
      [kind |-> "json", body |-> "data",
       Bars |-> <<Bar(2 * c + 1, 0), Bar(2 * c + 1, 1)>>] }

\* the state after the plan of a chunked call was made: Minute bars,
\* interval 1, a range of 2..MaxChunks chunks of 40 days
MergeInit ==
    /\ token_data = FileRecord(31)
    /\ file = JsonFile(FileRecord(31))
    /\ lock = 0
    /\ now = 0
    /\ url_set = TRUE
    /\ posts = 0
    /\ hist = <<>>
    /\ ThreadsIdle
    /\ ExpiryIdle
    /\ RequestIdle
    /\ MergeIdle
    /\ BulkIdle
    /\ StreamIdle
    /\ gb_pc = "chunked"
    /\ gb_exc = "none"
    /\ \E lg \in BOOLEAN, n \in 2..MaxChunks :
        gb_args = [legacy |-> lg, first_date |-> 0, last_date |-> 40 * n - 1,
                   unit |-> "Minute", interval |-> 1, den |-> 1]
    /\ gb_calls = IF gb_args.legacy THEN 0 ELSE 1
    /\ chunks = chunk_dates(date_range(gb_args.first_date, gb_args.last_date),
                            max_days_of(1440, gb_args.interval))

Chunks == 1..Len(chunks)
Running == {c \in DOMAIN mg_fut : mg_fut[c] = "running"}
Queued == {c \in DOMAIN mg_fut : mg_fut[c] = "queued"}

\* lines 273-295 (211-213): the accumulator is created and one fetch per
\* chunk is submitted to the pool
SubmitChunks ==
    /\ gb_pc = "chunked"
    /\ mg_pc = "idle"
    /\ mg_pc' = "fetch"
    /\ mg_workers' \in 1..MaxWorkers
    /\ mg_key' \in {"Time", "TimeStamp"}
    /\ mg_res' \in [Chunks -> UNION {ChunkResponses(c) : c \in Chunks}]
    /\ \A c \in Chunks : mg_res'[c] \in ChunkResponses(c)
    /\ mg_fut' = [c \in Chunks |-> "queued"]
    /\ merged' = IF gb_args.legacy THEN NoMerged
                 ELSE [has_bars |-> TRUE, Bars |-> <<>>]
    /\ UNCHANGED mg_out
    /\ UNCHANGED notMerge

WorkerStartUnbounded ==
    /\ mg_pc = "fetch"
    /\ Queued # {}
    /\ LET c == CHOOSE q \in Queued : \A r \in Queued : q <= r
       IN mg_fut' = [mg_fut EXCEPT ![c] = "running"]
    /\ UNCHANGED <<mg_pc, mg_key, mg_workers, mg_res, merged, mg_out>>
    /\ UNCHANGED notMerge

\* ThreadPoolExecutor: the oldest queued fetch starts when fewer than
\* max_workers fetches are running
WorkerStart ==
    /\ mg_pc = "fetch"
    /\ Queued # {}
    /\ Cardinality(Running) < mg_workers
    /\ LET c == CHOOSE q \in Queued : \A r \in Queued : q <= r
       IN mg_fut' = [mg_fut EXCEPT ![c] = "running"]
    /\ UNCHANGED <<mg_pc, mg_key, mg_workers, mg_res, merged, mg_out>>
    /\ UNCHANGED notMerge

\* lines 297-310: a failed chunk, {} and an empty Bars list are skipped, the
\* bars of any other answer are appended
merge_result(m, res) ==
    IF res.kind = "raise" \/ res.body \in {"empty", "nobars"} THEN m
    ELSE [has_bars |-> TRUE, Bars |-> m.Bars \o res.Bars]

\* endpoints/market_data.py lines 216-229: the first answer collected while
\* `merged` is empty becomes `merged`; later ones extend its Bars
merge_result_legacy(m, res) ==
    IF res.kind = "raise" THEN m
    ELSE IF ~m.has_bars
    THEN [has_bars |-> res.body # "empty", Bars |-> res.Bars]
    ELSE IF res.body = "empty" THEN m
    ELSE [has_bars |-> TRUE, Bars |-> m.Bars \o res.Bars]

\* a fetch ends and as_completed hands its future to the merge loop
Complete(c) ==
    /\ mg_pc = "fetch"
    /\ mg_fut[c] = "running"
    /\ mg_fut' = [mg_fut EXCEPT ![c] = "collected"]
    /\ merged' = IF gb_args.legacy THEN merge_result_legacy(merged, mg_res[c])
                 ELSE merge_result(merged, mg_res[c])
    /\ UNCHANGED <<mg_pc, mg_key, mg_workers, mg_res, mg_out>>
    /\ UNCHANGED notMerge

\* list.sort is stable: a bar goes after the bars whose key is not greater
RECURSIVE stable_sort(_)
stable_sort(bars) ==
    IF bars = <<>> THEN <<>>
    ELSE LET r == stable_sort(SubSeq(bars, 1, Len(bars) - 1))
             b == bars[Len(bars)]
             k == Cardinality({i \in 1..Len(r) : r[i].t <= b.t})
         IN SubSeq(r, 1, k) \o <<b>> \o SubSeq(r, k + 1, Len(r))

\* lines 314-318: key isoparse(b["Time"]) raises KeyError for a bar without
\* the key "Time"
sort_and_return(m, key) ==
    IF m.Bars # <<>> /\ key # "Time"
    THEN [kind |-> "KeyError", has_bars |-> FALSE, Bars |-> <<>>]
    ELSE [kind |-> "return", has_bars |-> TRUE, Bars |-> stable_sort(m.Bars)]

\* endpoints/market_data.py lines 230-233: key b.get("Time", "") is "" for
\* every bar without the key "Time", which leaves the list as it is
sort_and_return_legacy(m, key) ==
    [kind |-> "return", has_bars |-> m.has_bars,
     Bars |-> IF key = "Time" THEN stable_sort(m.Bars) ELSE m.Bars]

\* every future was collected: the pool is left, the bars sorted, the
\* accumulator returned
SortReturn ==
    /\ mg_pc = "fetch"
    /\ \A c \in Chunks : mg_fut[c] = "collected"
    /\ mg_pc' = "done"
    /\ mg_out' = IF gb_args.legacy THEN sort_and_return_legacy(merged, mg_key)
                 ELSE sort_and_return(merged, mg_key)
    /\ UNCHANGED <<mg_key, mg_workers, mg_res, mg_fut, merged>>
    /\ UNCHANGED notMerge

MergeNext ==
    \/ SubmitChunks
    \/ WorkerStart
    \/ \E c \in Chunks : Complete(c)
    \/ SortReturn

SpecMerge == MergeInit /\ [][MergeNext]_vars

\* =====================================================================
\* Properties of the chunked fetch and merge (SpecMerge)
\* =====================================================================
Ascending(bars) == \A i \in 1..(Len(bars) - 1) : bars[i].t <= bars[i + 1].t

\* the bars of the chunks whose fetch answered with bars, in chunk order
RECURSIVE BarsOfChunks(_)
BarsOfChunks(n) ==
    IF n = 0 THEN <<>>
    ELSE BarsOfChunks(n - 1) \o
         (IF mg_res[n].kind = "json" THEN mg_res[n].Bars ELSE <<>>)

Count(bars, b) == Cardinality({i \in 1..Len(bars) : bars[i] = b})
SameBars(a, b) ==
    /\ Len(a) = Len(b)
    /\ \A i \in 1..Len(a) : Count(a, a[i]) = Count(b, a[i])

\* C12 as stated: once every chunk result was collected the call returns a
\* Bars list sorted ascending by timestamp, whatever the completion order.
C12_MergedBarsSorted ==
    mg_pc = "done" =>
        /\ mg_out.kind = "return"
        /\ Ascending(mg_out.Bars)

\* what the code does give: bars that carry their instant under "Time" are
\* returned sorted, for every completion order
SortedWhenTimeKeyed ==
    (mg_pc = "done" /\ mg_key = "Time") =>
        /\ mg_out.kind = "return"
        /\ Ascending(mg_out.Bars)
        /\ SameBars(mg_out.Bars, BarsOfChunks(Len(chunks)))

\* C13 as stated: when the fetch of a chunk raises, the call still returns
\* normally, and its Bars list holds exactly the bars of the chunks that
\* answered, sorted ascending.
C13_FailedChunkSkipped ==
    (mg_pc = "done" /\ \E c \in Chunks : mg_res[c].kind = "raise") =>
        /\ mg_out.kind = "return"
        /\ SameBars(mg_out.Bars, BarsOfChunks(Len(chunks)))
        /\ Ascending(mg_out.Bars)

\* =====================================================================
\* Properties of the validation of get_bars_between (SpecBars)
\* =====================================================================

\* C14: MarketDataAPI.get_bars_between called with first_date later than
\* last_date raises a validation error and has then asked the TokenManager
\* for no token, sent no token request and no GET, and started no chunk
\* fetch.
C14_InvertedRangeRejected ==
    (/\ ~gb_args.legacy
     /\ gb_args.first_date > gb_args.last_date
     /\ gb_pc \notin {"idle", "validate"})
    => /\ gb_pc = "raised"
       /\ gb_exc \in {"Exception", "ValueError"}
       /\ gb_calls = 0
       /\ posts = 0
       /\ gets = 0
       /\ mg_fut = <<>>
       /\ chunks = <<>>

C14_Witness ==
    /\ ~gb_args.legacy
    /\ gb_args.first_date = 1
    /\ gb_args.last_date = 0
    /\ gb_args.unit = "Daily"
    /\ gb_pc = "raised"
    /\ gb_exc = "Exception"
    /\ gb_calls = 0

\* =====================================================================
\* The endpoints that take a list of account identifiers
\*   Brokerage (tradestation_python_client/endpoints/broker.py) and
\*   BrokerStream (tradestation_api_python/endpoints/ts_stream.py).  Of the
\*   lists only the lengths matter to the checks.
\* =====================================================================
RestEndpoints ==
    {"get_balances", "get_balances_bod", "get_orders", "get_orders_by_id",
     "get_historical_orders", "get_historical_orders_by_id", "get_positions"}
StreamEndpoints == {"stream_orders", "stream_orders_by_id", "stream_positions"}
BulkEndpoints == RestEndpoints \cup StreamEndpoints
ByIdEndpoints ==
    {"get_orders_by_id", "get_historical_orders_by_id", "stream_orders_by_id"}
HistoricalEndpoints == {"get_historical_orders", "get_historical_orders_by_id"}

\* `len(accounts) > 100`, and `len(accounts) > 25` in stream_positions
account_limit(ep) == IF ep = "stream_positions" THEN 25 ELSE 100

validate_unlimited(a) ==
    IF a.n_accounts = 0 THEN "At least one account must be provided."
    ELSE IF a.endpoint \in ByIdEndpoints /\ a.n_order_ids = 0
    THEN "At least one order ID must be provided."
    ELSE IF a.endpoint \in HistoricalEndpoints /\ ~a.since_ok
    THEN "since must be within the past 90 days."
    ELSE "none"

\* the checks an endpoint makes on entry, in their order; "none" when the
\* arguments pass
validate(a) ==
    IF a.n_accounts = 0 THEN "At least one account must be provided."
    ELSE IF a.endpoint \in ByIdEndpoints /\ a.n_order_ids = 0
    THEN "At least one order ID must be provided."
    ELSE IF a.n_accounts > account_limit(a.endpoint)
    THEN IF a.endpoint = "stream_positions"
         THEN "Maximum 25 accounts allowed per request."
         ELSE "Maximum 100 accounts allowed per request."
    ELSE IF a.endpoint \in ByIdEndpoints /\ a.n_order_ids > 100
    THEN "Maximum 100 order IDs allowed per request."
    ELSE IF a.endpoint \in HistoricalEndpoints /\ ~a.since_ok
    THEN "since must be within the past 90 days."
    ELSE "none"

\* an endpoint is called
BulkCall ==
    /\ bk_pc = "idle"
    /\ \E ep \in BulkEndpoints, na \in 0..MaxItems, no \in {0, 1, MaxItems},
          ok \in BOOLEAN :
        bk_args' = [endpoint |-> ep, n_accounts |-> na, n_order_ids |-> no,
                    since_ok |-> ok]
    /\ bk_pc' = "validate"
    /\ UNCHANGED <<bk_msg, bk_calls, bk_gets, token_data, file, posts>>
    /\ UNCHANGED notBulk

\* the checks at the head of the endpoint
BulkValidate ==
    /\ bk_pc = "validate"
    /\ bk_msg' = validate(bk_args)
    /\ bk_pc' = IF bk_msg' = "none" THEN "token" ELSE "raised"
    /\ UNCHANGED <<bk_args, bk_calls, bk_gets, token_data, file, posts>>
    /\ UNCHANGED notBulk

\* token = self.token_manager.get_token()
BulkToken ==
    /\ bk_pc = "token"
    /\ \E o \in TokenOutcomes :
        LET r == get_token_seq(token_data, now, url_set, o, posts + 1)
        IN /\ ApplyToken(r)
           /\ bk_calls' = bk_calls + 1
           /\ bk_msg' = r.exc
           /\ bk_pc' = IF r.exc = "none" THEN "request" ELSE "raised"
    /\ UNCHANGED <<bk_args, bk_gets>>
    /\ UNCHANGED notBulk

\* self.make_request(...) or self.stream_loop(...): the first request leaves
BulkRequest ==
    /\ bk_pc = "request"
    /\ bk_gets' = bk_gets + 1
    /\ bk_pc' = "requested"
    /\ UNCHANGED <<bk_args, bk_msg, bk_calls, token_data, file, posts>>
    /\ UNCHANGED notBulk

BulkNext ==
    \/ BulkCall
    \/ BulkValidate
    \/ BulkToken
    \/ BulkRequest

SpecBulk == Init /\ [][BulkNext]_vars

OtherArgsValid ==
    /\ bk_args.endpoint \in ByIdEndpoints => bk_args.n_order_ids \in 1..100
    /\ bk_args.endpoint \in HistoricalEndpoints => bk_args.since_ok

\* C15 as stated: every bulk endpoint given 101 account identifiers raises
\* an error citing the 100-item limit and makes no token request and no GET.
C15_Limit100Cited ==
    (/\ bk_pc \notin {"idle", "validate"}
     /\ bk_args.n_accounts = 101
     /\ OtherArgsValid)
    => /\ bk_pc = "raised"
       /\ bk_msg = "Maximum 100 accounts allowed per request."
       /\ bk_calls = 0
       /\ bk_gets = 0
       /\ posts = 0

\* C15 amended: every bulk endpoint given more than 100 account identifiers
\* raises an error and makes no token request and no GET; the error cites
\* the 100-item limit, except in stream_positions, where it cites that
\* stream's own limit of 25.
C15_LimitRejected ==
    (/\ bk_pc \notin {"idle", "validate"}
     /\ bk_args.n_accounts > 100
     /\ OtherArgsValid)
    => /\ bk_pc = "raised"
       /\ bk_msg = IF bk_args.endpoint = "stream_positions"
                   THEN "Maximum 25 accounts allowed per request."
                   ELSE "Maximum 100 accounts allowed per request."
       /\ bk_calls = 0
       /\ bk_gets = 0
       /\ posts = 0

C15_Witness ==
    /\ bk_pc = "raised"
    /\ bk_args.endpoint = "get_balances"
    /\ bk_args.n_accounts = 101
    /\ bk_msg = "Maximum 100 accounts allowed per request."
    /\ bk_calls = 0
    /\ bk_gets = 0

\* =====================================================================
\* BaseStreamClient: stream_loop, _run_stream, _refresh_and_reconnect, stop
\*   (tradestation_api_python/base_client.py lines 148-259).  One thread
\*   runs stream_loop; stop() is called from another one.  _run_stream and
\*   _refresh_and_reconnect call each other, so the thread carries a stack
\*   of suspended _run_stream frames; the interpreter raises RecursionError
\*   when the stack would exceed its limit, here MaxDepth frames.
\* =====================================================================
\* statuses a connect can be answered with; 304 stands for the answers that
\* are neither 2xx nor an error status (requests returns them as they are
\* when there is nothing to follow)
StreamStatuses == {200, 304, 401, 403, 500}
ConnectOutcomes ==
    { [kind |-> "response", status |-> st] : st \in StreamStatuses }
    \cup { [kind |-> "RequestException", status |-> 0] }

\* what resp.iter_lines() hands over next: a line (valid JSON, blank, or not
\* JSON), the end of the body, or a network error
LineEvents == {"json", "blank", "malformed", "close", "error"}

\* requests.Response.ok: raise_for_status() would not raise
resp_ok(st) == ~raise_for_status(st)

is_2xx(st) == st >= 200 /\ st < 300

\* HTTPError and ConnectionError are requests.exceptions.RequestException
RequestExceptions == {"HTTPError", "ConnectionError"}

running_after_stop_kept == TRUE

\* stop line 259: the value stop() leaves in self._running
running_after_stop == FALSE

\* the innermost suspended frame waiting inside its try block, 0 if none
catch_frame(stk) ==
    IF \E i \in 1..Len(stk) : stk[i] = "try"
    THEN CHOOSE i \in 1..Len(stk) :
            stk[i] = "try" /\ \A j \in (i + 1)..Len(stk) : stk[j] # "try"
    ELSE 0

stGhost == <<stop_called, late_connect, fatal_seen, post_fatal, late_calls,
             early_stop>>

\* the token of an Authorization header the caller put into `headers`
CallerToken == 0

\* stop lines 257-259, called before stream_loop has begun
StopBeforeStart ==
    /\ st_pc = "idle"
    /\ ~early_stop
    /\ running' = running_after_stop
    /\ early_stop' = TRUE
    /\ UNCHANGED <<st_pc, stack, has_data, st_line, st_exc, slept, prev_conn,
                   stop_called, late_connect, fatal_seen, post_fatal,
                   late_calls>>
    /\ UNCHANGED <<token_data, file, posts>>
    /\ UNCHANGED <<st_headers, conn_auth>>
    /\ UNCHANGED <<st_lines, dispatched>>
    /\ UNCHANGED notStream

\* stream_loop lines 222-233: self._running = True
StreamLoopCall ==
    /\ st_pc = "idle"
    /\ running' = TRUE
    /\ st_pc' = "start"
    /\ UNCHANGED <<stack, has_data, st_line, st_exc, slept, prev_conn,
                   stGhost>>
    /\ UNCHANGED <<token_data, file, posts>>
    /\ UNCHANGED <<st_headers, conn_auth>>
    /\ UNCHANGED <<st_lines, dispatched>>
    /\ UNCHANGED notStream

\* stream_loop lines 235-238: the Authorization header is filled in from
\* get_token unless the caller supplied one
StreamLoopAuth ==
    /\ st_pc = "start"
    /\ \E has_auth \in BOOLEAN :
        IF has_auth
        THEN /\ st_pc' = "loop"
             /\ st_headers' = CallerToken
             /\ UNCHANGED <<token_data, file, posts, st_exc>>
        ELSE \E o \in TokenOutcomes :
             LET r == get_token_seq(token_data, now, url_set, o, posts + 1)
             IN /\ ApplyToken(r)
                /\ st_pc' = IF r.exc = "none" THEN "loop" ELSE "raised"
                /\ st_exc' = r.exc
                /\ st_headers' = IF r.exc = "none" THEN r.tok ELSE st_headers
    /\ UNCHANGED <<running, stack, has_data, st_line, slept, prev_conn,
                   stGhost>>
    /\ UNCHANGED conn_auth
    /\ UNCHANGED <<st_lines, dispatched>>
    /\ UNCHANGED notStream

\* stream_loop line 240: while self._running
LoopCheck ==
    /\ st_pc = "loop"
    /\ st_pc' = IF running THEN "connect" ELSE "returned"
    /\ UNCHANGED <<running, stack, has_data, st_line, st_exc, slept,
                   prev_conn, stGhost>>
    /\ UNCHANGED <<token_data, file, posts>>
    /\ UNCHANGED <<st_headers, conn_auth>>
    /\ UNCHANGED <<st_lines, dispatched>>
    /\ UNCHANGED notStream

\* _run_stream lines 171-194: the connection is opened and its status looked
\* at; a status that is not ok and not 401 stops the session
Connect ==
    /\ st_pc = "connect"
    /\ post_fatal' = (post_fatal \/ fatal_seen)
    /\ slept' = {}
    /\ \E o \in ConnectOutcomes :
        IF o.kind = "RequestException"
        THEN /\ st_pc' = "err_sleep"
             /\ prev_conn' = "error"
             /\ UNCHANGED <<running, stack, has_data, fatal_seen>>
        ELSE IF o.status = 401
        THEN /\ st_pc' = "refresh_401"
             /\ prev_conn' = "401"
             /\ UNCHANGED <<running, stack, has_data, fatal_seen>>
        ELSE IF ~resp_ok(o.status)
        THEN /\ running' = running_after_stop
             /\ fatal_seen' = TRUE
             /\ prev_conn' = "fatal"
             /\ st_pc' = "after_run"
             /\ stack' = <<>>
             /\ UNCHANGED has_data
        ELSE /\ st_pc' = "read"
             /\ has_data' = FALSE
             /\ prev_conn' = IF is_2xx(o.status) THEN "open" ELSE "open_not_2xx"
             /\ UNCHANGED <<running, stack, fatal_seen>>
    /\ conn_auth' = st_headers
    /\ st_lines' = <<>>
    /\ dispatched' = <<>>
    /\ UNCHANGED <<st_line, st_exc, stop_called, late_connect, st_headers,
                   late_calls, early_stop>>
    /\ UNCHANGED <<token_data, file, posts>>
    /\ UNCHANGED notStream

stopped_by_user_never(r) == FALSE

\* _run_stream line 198: if not self._running
stopped_by_user(r) == ~r

\* _run_stream lines 196-202: the next line arrives and _running is looked at
ReadLine ==
    /\ st_pc = "read"
    /\ \E ev \in LineEvents :
        IF ev = "close"
        THEN /\ st_pc' = "after_read"
             /\ prev_conn' = IF has_data THEN "data_close" ELSE "empty_close"
             /\ UNCHANGED <<has_data, st_line, st_lines, dispatched>>
        ELSE IF ev = "error"
        THEN /\ st_pc' = "err_sleep"
             /\ prev_conn' = "error"
             /\ st_lines' = <<>>
             /\ dispatched' = <<>>
             /\ UNCHANGED <<has_data, st_line>>
        ELSE IF stopped_by_user(running)
        THEN /\ st_pc' = "after_read"
             /\ prev_conn' = "stopped"
             /\ UNCHANGED <<has_data, st_line, st_lines, dispatched>>
        ELSE /\ Len(st_lines) < MaxLines
             /\ st_lines' = Append(st_lines, ev)
             /\ IF ev = "blank"
                THEN UNCHANGED <<st_pc, prev_conn, has_data, st_line>>
                ELSE /\ has_data' = TRUE
                     /\ st_line' = ev
                     /\ st_pc' = "dispatch"
                     /\ UNCHANGED prev_conn
             /\ UNCHANGED dispatched
    /\ UNCHANGED <<running, stack, st_exc, slept, stGhost>>
    /\ UNCHANGED <<token_data, file, posts>>
    /\ UNCHANGED <<st_headers, conn_auth>>
    /\ UNCHANGED notStream

on_message_calls_any(line, i) == <<i>>

\* _run_stream lines 204-209: on_message is called with the decoded line;
\* json.loads raises JSONDecodeError for a line that is not JSON and the line
\* is dropped
on_message_calls(line, i) == IF line = "json" THEN <<i>> ELSE <<>>

\* _run_stream lines 203-208: json.loads(line), on_message(data)
Dispatch ==
    /\ st_pc = "dispatch"
    /\ st_pc' = "read"
    /\ st_line' = "none"
    /\ dispatched' = dispatched \o on_message_calls(st_line, Len(st_lines))
    /\ UNCHANGED st_lines
    /\ post_fatal' = (post_fatal \/ (fatal_seen /\ st_line = "json"))
    /\ late_calls' = IF stop_called
                     THEN late_calls
                          + Len(on_message_calls(st_line, Len(st_lines)))
                     ELSE late_calls
    /\ UNCHANGED <<running, stack, has_data, st_exc, slept, prev_conn,
                   stop_called, late_connect, fatal_seen, early_stop>>
    /\ UNCHANGED <<token_data, file, posts>>
    /\ UNCHANGED <<st_headers, conn_auth>>
    /\ UNCHANGED notStream

\* _run_stream lines 210-214: after the lines; the return unwinds every
\* suspended frame back into stream_loop
AfterRead ==
    /\ st_pc = "after_read"
    /\ IF has_data
       THEN st_pc' = "after_run" /\ stack' = <<>>
       ELSE st_pc' = "idle_sleep" /\ UNCHANGED stack
    /\ st_lines' = <<>>
    /\ dispatched' = <<>>
    /\ UNCHANGED <<running, has_data, st_line, st_exc, slept, prev_conn,
                   stGhost>>
    /\ UNCHANGED <<token_data, file, posts>>
    /\ UNCHANGED <<st_headers, conn_auth>>
    /\ UNCHANGED notStream

IdleSleepSkipped ==
    /\ st_pc = "idle_sleep"
    /\ st_pc' = "after_run"
    /\ stack' = <<>>
    /\ UNCHANGED <<running, has_data, st_line, st_exc, slept, prev_conn,
                   stGhost>>
    /\ UNCHANGED <<token_data, file, posts>>
    /\ UNCHANGED <<st_headers, conn_auth>>
    /\ UNCHANGED <<st_lines, dispatched>>
    /\ UNCHANGED notStream

\* _run_stream line 214: time.sleep(10)
IdleSleep ==
    /\ st_pc = "idle_sleep"
    /\ slept' = slept \cup {10}
    /\ st_pc' = "after_run"
    /\ stack' = <<>>
    /\ UNCHANGED <<running, has_data, st_line, st_exc, prev_conn, stGhost>>
    /\ UNCHANGED <<token_data, file, posts>>
    /\ UNCHANGED <<st_headers, conn_auth>>
    /\ UNCHANGED <<st_lines, dispatched>>
    /\ UNCHANGED notStream

\* _run_stream lines 216-218: except RequestException, time.sleep(3)
ErrSleep ==
    /\ st_pc = "err_sleep"
    /\ slept' = slept \cup {3}
    /\ st_pc' = "refresh_err"
    /\ UNCHANGED <<running, stack, has_data, st_line, st_exc, prev_conn,
                   stGhost>>
    /\ UNCHANGED <<token_data, file, posts>>
    /\ UNCHANGED <<st_headers, conn_auth>>
    /\ UNCHANGED <<st_lines, dispatched>>
    /\ UNCHANGED notStream

\* _refresh_and_reconnect lines 148-161, called from the 401 branch (inside
\* the try block, line 181) or from the except branch (line 219): get_token,
\* then _run_stream again in a new frame.  A RequestException raised by
\* get_token is caught by the innermost frame still inside its try block;
\* anything else leaves stream_loop.
RefreshAndReconnect ==
    /\ st_pc \in {"refresh_401", "refresh_err"}
    /\ post_fatal' = (post_fatal \/ fatal_seen)
    /\ \E o \in TokenOutcomes :
        LET r == get_token_seq(token_data, now, url_set, o, posts + 1)
            mode == IF st_pc = "refresh_401" THEN "try" ELSE "handler"
            k == IF mode = "try" THEN Len(stack) + 1 ELSE catch_frame(stack)
        IN /\ ApplyToken(r)
           /\ st_headers' = IF r.exc = "none" THEN r.tok ELSE st_headers
           /\ IF r.exc = "none"
              THEN IF Len(stack) + 2 > MaxDepth
                   THEN /\ st_pc' = "raised"
                        /\ st_exc' = "RecursionError"
                        /\ stack' = <<>>
                   ELSE /\ st_pc' = "connect"
                        /\ stack' = Append(stack, mode)
                        /\ UNCHANGED st_exc
              ELSE IF r.exc \in RequestExceptions /\ k > 0
              THEN /\ st_pc' = "err_sleep"
                   /\ stack' = SubSeq(stack, 1, k - 1)
                   /\ UNCHANGED st_exc
              ELSE /\ st_pc' = "raised"
                   /\ st_exc' = r.exc
                   /\ stack' = <<>>
    /\ late_connect' = (late_connect \/ (stop_called /\ st_pc' = "connect"))
    /\ UNCHANGED <<running, has_data, st_line, slept, prev_conn,
                   stop_called, fatal_seen, conn_auth, late_calls,
                   early_stop>>
    /\ UNCHANGED <<st_lines, dispatched>>
    /\ UNCHANGED notStream

\* stream_loop lines 254-255: if self._running, time.sleep(1)
AfterRun ==
    /\ st_pc = "after_run"
    /\ st_pc' = IF running THEN "loop_sleep" ELSE "loop"
    /\ UNCHANGED <<running, stack, has_data, st_line, st_exc, slept,
                   prev_conn, stGhost>>
    /\ UNCHANGED <<token_data, file, posts>>
    /\ UNCHANGED <<st_headers, conn_auth>>
    /\ UNCHANGED <<st_lines, dispatched>>
    /\ UNCHANGED notStream

LoopSleep ==
    /\ st_pc = "loop_sleep"
    /\ slept' = slept \cup {1}
    /\ st_pc' = "loop"
    /\ UNCHANGED <<running, stack, has_data, st_line, st_exc, prev_conn,
                   stGhost>>
    /\ UNCHANGED <<token_data, file, posts>>
    /\ UNCHANGED <<st_headers, conn_auth>>
    /\ UNCHANGED <<st_lines, dispatched>>
    /\ UNCHANGED notStream

\* stop lines 257-259, called from another thread while the session runs
Stop ==
    /\ st_pc \notin {"idle", "returned", "raised"}
    /\ ~stop_called
    /\ running' = running_after_stop
    /\ stop_called' = TRUE
    /\ UNCHANGED <<st_pc, stack, has_data, st_line, st_exc, slept, prev_conn,
                   late_connect, fatal_seen, post_fatal, late_calls,
                   early_stop>>
    /\ UNCHANGED <<token_data, file, posts>>
    /\ UNCHANGED <<st_headers, conn_auth>>
    /\ UNCHANGED <<st_lines, dispatched>>
    /\ UNCHANGED notStream

StreamStep ==
    \/ StreamLoopAuth
    \/ LoopCheck
    \/ Connect
    \/ ReadLine
    \/ Dispatch
    \/ AfterRead
    \/ IdleSleep
    \/ ErrSleep
    \/ RefreshAndReconnect
    \/ AfterRun
    \/ LoopSleep

StreamNext ==
    \/ StreamLoopCall
    \/ StreamLoopAuth
    \/ LoopCheck
    \/ Connect
    \/ ReadLine
    \/ Dispatch
    \/ AfterRead
    \/ IdleSleep
    \/ ErrSleep
    \/ RefreshAndReconnect
    \/ AfterRun
    \/ LoopSleep
    \/ Stop

\* the thread running stream_loop keeps running
SpecStream == Init /\ [][StreamNext]_vars /\ WF_vars(StreamStep)

\* the same session with a user thread that may also call stop() before
\* stream_loop has begun
StopFirstNext ==
    \/ StopBeforeStart
    \/ StreamLoopCall
    \/ StreamLoopAuth
    \/ LoopCheck
    \/ Connect
    \/ ReadLine
    \/ Dispatch
    \/ AfterRead
    \/ IdleSleep
    \/ ErrSleep
    \/ RefreshAndReconnect
    \/ AfterRun
    \/ LoopSleep
    \/ Stop

SpecStopFirst == Init /\ [][StopFirstNext]_vars /\ WF_vars(StreamStep)

\* ---------------------------------------------------------------------
\* C16: when an accepted connection closes having delivered no non-blank
\* line, the session has waited the 10 s idle delay by the time it is about
\* to open its next connection.
C16_IdleDelayBeforeReconnect ==
    (st_pc = "connect" /\ prev_conn = "empty_close") => 10 \in slept

\* the session is about to reconnect after an empty connection
C16_Witness ==
    /\ st_pc = "connect"
    /\ prev_conn = "empty_close"
    /\ slept = {10, 1}
    /\ ~has_data

\* ---------------------------------------------------------------------
\* C17: once stop() has been called on a running session, the reconnect path
\* starts no new connection: _refresh_and_reconnect never goes on to
\* _run_stream / _connect when stop() was called before it began.
C17_NoConnectAfterStop == ~late_connect

\* ---------------------------------------------------------------------
\* C18: once stop() has been called on a running session, stream_loop
\* eventually returns (every network call and sleep completing).
C18_ReturnsAfterStop == stop_called ~> (st_pc = "returned")

\* what the session does guarantee after stop(): stream_loop ends, by
\* returning or by raising
StopEndsLoop == stop_called ~> (st_pc \in {"returned", "raised"})

\* ---------------------------------------------------------------------
\* C19: a network failure while connecting or reading never ends the
\* session: when stream_loop has returned or raised and the last connection
\* ended in a network failure, stop() had been called or a fatal status seen.
C19_NetworkFailureNeverEnds ==
    (st_pc \in {"returned", "raised"} /\ prev_conn = "error")
        => (stop_called \/ fatal_seen)

\* consecutive network failures alone, every token request succeeding, end
\* the session with RecursionError
NetworkFailuresExhaustStack ==
    /\ st_pc = "raised"
    /\ st_exc = "RecursionError"
    /\ prev_conn = "error"
    /\ posts = 0
    /\ ~stop_called
    /\ ~fatal_seen

ReconnectAfter401 ==
    /\ st_pc = "connect"
    /\ stack # <<>>
    /\ stack[Len(stack)] = "try"

\* C21: after a connect answered 401 the new connection attempt carries a
\* refreshed token, not the token that was just rejected, and is made
\* without the 3 s wait of the network failures.
C21_ReconnectWithRefreshedToken ==
    ReconnectAfter401 => (st_headers # conn_auth /\ 3 \notin slept)

\* what the 401 branch does guarantee: the new attempt carries whatever
\* get_token returned, the access_token of the record, and is made without
\* the 3 s wait
ReconnectWithRecordToken ==
    ReconnectAfter401
        => /\ st_headers = token_data["access_token"]
           /\ 3 \notin slept

\* ---------------------------------------------------------------------
\* positions of the lines of ls that are JSON, in order
RECURSIVE JsonPositions(_, _)
JsonPositions(ls, n) ==
    IF n = 0 THEN <<>>
    ELSE IF ls[n] = "json" THEN Append(JsonPositions(ls, n - 1), n)
    ELSE JsonPositions(ls, n - 1)

\* the lines the loop body has finished with
HandledLines ==
    IF st_pc = "dispatch" THEN Len(st_lines) - 1 ELSE Len(st_lines)

BadFile(f) ==
    \/ f.kind \in {"absent", "corrupt"}
    \/ \E k \in required_keys : f.rec[k] = Absent

\* no refresh has reached _save yet: the token file is the one the
\* TokenManager was constructed over
NoSaveYet == \A i \in 1..Len(hist) : hist[i] = EmptyDict

RECURSIVE SavedRecords(_, _)
SavedRecords(h, n) ==
    IF n = 0 THEN <<>>
    ELSE IF h[n] = EmptyDict THEN SavedRecords(h, n - 1)
    ELSE Append(SavedRecords(h, n - 1), h[n])

Saved == SavedRecords(hist, Len(hist))

\* C24: after a refresh has saved, the token file holds exactly the record
\* of the latest save, with no key of the earlier content, and once the save
\* is complete the in-memory record is equal to it (obtained_at included).
C24_FileEqualsRecord ==
    Saved # <<>>
        => /\ file = JsonFile(Saved[Len(Saved)])
           /\ (\A t \in Threads : pc[t] # "save_mem") => token_data = file.rec

\* two refreshes have saved; the second record lacks id_token, which the
\* first one and the file written from it had
C24_Witness ==
    /\ Len(Saved) = 2
    /\ Saved[1]["id_token"] # Absent
    /\ Saved[2]["id_token"] = Absent
    /\ file.rec["id_token"] = Absent
    /\ token_data = file.rec
    /\ token_data["obtained_at"] > 0
    /\ \A t \in Threads : pc[t] = "idle"

\* ---------------------------------------------------------------------
\* C25: within one attempt of _request_with_retry a 401 is handled by one
\* layer only: when the retry loop is about to request a token, make_request
\* has not requested one during the same attempt (it made a single GET).
C25_SingleLayerOwns401 ==
    rq_pc = "refresh_token" => Len(mr_log) < 2

\* one attempt has caused two refresh requests: one by get_token inside
\* make_request, one by refresh_token in the retry loop
TwoRefreshesInOneAttempt ==
    /\ rq_pc = "attempt"
    /\ attempt > 0
    /\ posts = mr_posts + 2

\* ---------------------------------------------------------------------
\* C26: a refresh whose response omits refresh_token gives the new record
\* the refresh_token of the previous record, and a refresh request sends
\* the refresh_token of the record held when it is made.
C26_RefreshTokenCarriedOver ==
    \A t \in Threads :
        /\ (/\ pc[t] = "save"
            /\ token_data # EmptyDict
            /\ new_data[t]["refresh_token"] # ServerRefreshToken)
               => new_data[t]["refresh_token"] = token_data["refresh_token"]
        /\ (pc[t] = "refresh" /\ url_set /\ token_data # EmptyDict)
               => payload_refresh_token = token_data["refresh_token"]

\* the server rotated the refresh token and the next refresh request is
\* about to be made with the value of the environment
StaleRefreshTokenSent ==
    \E t \in Threads :
        /\ pc[t] = "refresh"
        /\ url_set
        /\ token_data["refresh_token"] = ServerRefreshToken
        /\ payload_refresh_token # ServerRefreshToken

\* ---------------------------------------------------------------------
\* C27: the in-memory record is never a non-empty record without
\* access_token, and no refresh saves a body without access_token to the
\* token file.
C27_RecordHasAccessToken ==
    /\ token_data # EmptyDict => token_data["access_token"] # Absent
    /\ \A i \in 1..Len(Saved) : Saved[i]["access_token"] # Absent

\* ---------------------------------------------------------------------
\* the step in which the refresh of thread t fails on the unset URL or on
\* the answer to its POST
RefreshFails(t) ==
    /\ pc[t] = "refresh"
    /\ pc'[t] = "idle"
    /\ ret'[t].kind \in {"ValueError", "RequestException"}

DayCount == gb_args.last_date - gb_args.first_date + 1

CeilDiv(a, b) == (a + b - 1) \div b

\* C29: MarketDataAPI.get_bars_between plans exactly one request over
\* [first_date, last_date] when D * multiplier / interval <= 57,600 and
\* ceil(D / max_days) chunk requests only when the estimate exceeds 57,600;
\* 40 days of 1-minute bars are one request, 41 days are two.
C29_SingleOrChunked ==
    (~gb_args.legacy /\ gb_pc \in {"single", "chunked"})
        => LET mult == gb_args.den * multiplier(gb_args.unit)
               est_fits == DayCount * mult <= 57600 * gb_args.interval
               max_days == (57600 * gb_args.interval) \div mult
           IN /\ est_fits
                    => /\ gb_pc = "single"
                       /\ chunks = <<<<gb_args.first_date, gb_args.last_date>>>>
              /\ ~est_fits
                    => /\ gb_pc = "chunked"
                       /\ Len(chunks) = CeilDiv(DayCount, max_days)
                       /\ Len(chunks) >= 2
              /\ (/\ gb_args.unit = "Minute"
                  /\ gb_args.interval = 1
                  /\ gb_args.den = 1)
                    => /\ DayCount = 40 => gb_pc = "single"
                       /\ DayCount = 41 => Len(chunks) = 2

\* 41 days of 1-minute bars planned as two chunks
C29_Witness ==
    /\ ~gb_args.legacy
    /\ gb_pc = "chunked"
    /\ gb_args.unit = "Minute"
    /\ gb_args.interval = 1
    /\ DayCount = 41
    /\ chunks = <<<<gb_args.first_date, gb_args.first_date + 39>>,
                  <<gb_args.first_date + 40, gb_args.last_date>>>>

\* ---------------------------------------------------------------------
\* the call got as far as chunk planning with an estimate above the limit
\* and max_days_per_chunk = floor(57,600 * interval / multiplier) = 0
ZeroMaxDays ==
    LET mult == gb_args.den * (IF gb_args.legacy THEN 1440
                               ELSE multiplier(gb_args.unit))
    IN /\ gb_pc \in {"single", "chunked", "raised"}
       /\ gb_exc \in {"none", "ValueError"}
       /\ gb_args.unit \in (IF gb_args.legacy THEN {"Minute"} ELSE valid_units)
       /\ gb_args.first_date <= gb_args.last_date
       /\ gb_calls = (IF gb_args.legacy THEN 0 ELSE 1)
       /\ (57600 * gb_args.interval) \div mult = 0

\* C30: when max_days_per_chunk is 0 chunk planning fails with an error and
\* plans no request: there is no empty plan and no chunk at all.
C30_ZeroMaxDaysFails ==
    /\ ZeroMaxDays => (gb_pc = "raised" /\ gb_exc = "ValueError" /\ chunks = <<>>)
    /\ gb_pc = "chunked"
          => /\ chunks # <<>>
             /\ \A k \in 1..Len(chunks) : chunks[k][1] <= chunks[k][2]

\* Minute bars asked for with interval 0.001: planning has failed
C30_Witness ==
    /\ ZeroMaxDays
    /\ ~gb_args.legacy
    /\ gb_args.unit = "Minute"
    /\ gb_args.interval = 1
    /\ gb_args.den = 1000
    /\ gb_pc = "raised"
    /\ url_set

\* ---------------------------------------------------------------------
\* C31: the nesting of _run_stream and _refresh_and_reconnect stays within
\* a constant depth whatever the connect outcomes are: no run of 401 answers
\* or of network failures uses up the call stack.
C31_ReconnectDepthBounded == st_exc # "RecursionError"

\* consecutive 401 answers alone, the record unexpired so that no token is
\* requested, end the session with RecursionError
UnauthorizedAnswersExhaustStack ==
    /\ st_pc = "raised"
    /\ st_exc = "RecursionError"
    /\ prev_conn = "401"
    /\ posts = 0
    /\ ~stop_called
    /\ ~fatal_seen

\* ---------------------------------------------------------------------
\* C32: with stop() called from another thread on the running session, at
\* most one on_message call begins after it, the call for the line whose
\* _running check had already passed; no later line of that connection or
\* of a later connection is dispatched.
C32_AtMostOneLateMessage ==
    /\ late_calls <= 1
    /\ (stop_called /\ st_pc = "dispatch") => late_calls = 0

\* one on_message call began after stop(), the reconnect path opened a new
\* connection, and that connection was left at its first line
C32_Witness ==
    /\ late_calls = 1
    /\ late_connect
    /\ prev_conn = "stopped"
    /\ st_lines = <<>>

\* ---------------------------------------------------------------------
\* C33: once stop() has been called the session never goes on to connect
\* again, whether stop() was called on the running session or before
\* stream_loop began.
C33_StoppedIsTerminal ==
    [][(stop_called \/ early_stop) => ~(st_pc # "connect" /\ st_pc' = "connect")]_vars

\* stop() called before stream_loop began, and the session is reading an
\* open connection
EarlyStopForgotten ==
    /\ early_stop
    /\ ~stop_called
    /\ running
    /\ st_pc = "read"

\* ---------------------------------------------------------------------
\* every attempt of the finished _request_with_retry call answered 200 with
\* an empty payload
AllAttemptsEmpty ==
    /\ rq_pc = "done"
    /\ retries >= 1
    /\ Len(att_log) = retries
    /\ \A i \in 1..retries : EmptyAnswer(att_log[i])

\* C34: when all `retries` attempts answer 200 with an empty payload, the
\* call returns the last empty payload and raises nothing; it has slept
\* after every empty attempt but the last.
C34_AllEmptyReturnsLast ==
    AllAttemptsEmpty
        => /\ rq_out = att_log[retries]
           /\ rq_out.kind = "json"
           /\ Len(sleeps) = retries
           /\ \A i \in 1..(retries - 1) : sleeps[i] = i
           /\ sleeps[retries] = 0

\* three attempts, an empty object, then twice an empty Bars list
C34_Witness ==
    /\ AllAttemptsEmpty
    /\ retries = 3
    /\ att_log[1].body = "empty"
    /\ att_log[2].body = "nobars"
    /\ att_log[3].body = "nobars"
    /\ rq_out.body = "nobars"
    /\ sleeps = <<1, 2, 0>>

\* ---------------------------------------------------------------------
\* C38: between attempt k and attempt k + 1 of _request_with_retry the call
\* sleeps backoff * k, whatever made it retry, and it does not sleep after
\* the final attempt.
C38_LinearBackoffEveryRetry ==
    /\ \A k \in 1..(Len(att_log) - 1) : sleeps[k] = k
    /\ (rq_pc = "done" /\ retries >= 1 /\ Len(sleeps) = retries)
            => sleeps[retries] = 0

\* what the loop does guarantee: backoff * k after every attempt that is
\* followed by another one, except after a 401, where the next attempt
\* follows the token refresh with no sleep
BackoffExceptAfter401 ==
    /\ \A k \in 1..(Len(att_log) - 1) :
          sleeps[k] = IF att_log[k].kind = "HTTPError"
                         /\ att_log[k].status = 401
                      THEN 0 ELSE k
    /\ (rq_pc = "done" /\ retries >= 1 /\ Len(sleeps) = retries)
            => sleeps[retries] = 0

\* a second attempt made after a 401, no sleep between the two
RetryAfter401WithoutSleep ==
    /\ Len(att_log) = 2
    /\ att_log[1].kind = "HTTPError"
    /\ att_log[1].status = 401
    /\ sleeps[1] = 0

\* ---------------------------------------------------------------------
\* no chunk of the call delivered a bar: every fetch raised or answered an
\* empty payload
NoChunkHasBars ==
    \A c \in Chunks : mg_res[c].kind = "raise"
                       \/ mg_res[c].body \in {"empty", "nobars"}

\* the merge loop can always go on until the call has returned
MergeNotStuck ==
    mg_pc = "fetch" =>
        \/ Running # {}
        \/ Queued # {} /\ Cardinality(Running) < mg_workers
        \/ \A c \in Chunks : mg_fut[c] = "collected"

\* C35: when every chunk of a chunked get_bars_between fails or returns no
\* bars, the call returns normally with an empty Bars list; no exception of
\* a chunk reaches the caller and the call never waits for ever on a chunk.
C35_AllChunksFailedReturnsEmpty ==
    /\ MergeNotStuck
    /\ (mg_pc = "done" /\ NoChunkHasBars)
            => /\ mg_out.kind = "return"
               /\ mg_out.has_bars
               /\ mg_out.Bars = <<>>

\* what MarketDataAPI.get_bars_between gives: the claim as stated
AllChunksFailedReturnsEmptyBars ==
    /\ MergeNotStuck
    /\ (mg_pc = "done" /\ NoChunkHasBars /\ ~gb_args.legacy)
            => /\ mg_out.kind = "return"
               /\ mg_out.has_bars
               /\ mg_out.Bars = <<>>

\* MarketDataAPI.get_bars_between has returned after three chunks that all
\* raised
AllChunksRaised ==
    /\ mg_pc = "done"
    /\ ~gb_args.legacy
    /\ Len(chunks) = 3
    /\ \A c \in Chunks : mg_res[c].kind = "raise"
    /\ mg_out.kind = "return"

\* ---------------------------------------------------------------------
\* C36: the merged Bars list of a chunked MarketDataAPI.get_bars_between is
\* the multiset union of the Bars of the chunks that succeeded: no bar is
\* dropped and none is de-duplicated.
C36_MergedIsMultisetUnion ==
    (mg_pc = "done" /\ ~gb_args.legacy)
        => /\ mg_out.kind = "return"
           /\ SameBars(mg_out.Bars, BarsOfChunks(Len(chunks)))

\* with bars keyed "Time" a bar answered by two adjacent chunks is returned
\* twice
DuplicateBarKept ==
    /\ mg_pc = "done"
    /\ ~gb_args.legacy
    /\ mg_key = "Time"
    /\ mg_out.kind = "return"
    /\ SameBars(mg_out.Bars, BarsOfChunks(Len(chunks)))
    /\ \E i, j \in 1..Len(mg_out.Bars) : i # j /\ mg_out.Bars[i] = mg_out.Bars[j]

\* ---------------------------------------------------------------------
\* what the call returns when the fetches complete in the order of the plan
InOrderResult ==
    IF gb_args.legacy
    THEN IF mg_key = "Time" THEN stable_sort(BarsOfChunks(Len(chunks)))
         ELSE BarsOfChunks(Len(chunks))
    ELSE stable_sort(BarsOfChunks(Len(chunks)))

\* C37: for fixed chunk responses MarketDataAPI.get_bars_between returns
\* the same Bars list for every completion order of the fetches: the list
\* of any run equals the list of the run that completes in plan order.
C37_ResultIndependentOfOrder ==
    (mg_pc = "done" /\ ~gb_args.legacy /\ mg_out.kind = "return")
        => mg_out.Bars = InOrderResult

\* what the sort does guarantee for bars keyed "Time": the same multiset in
\* ascending order of timestamp, for every completion order
SameBarsInTimeOrder ==
    (mg_pc = "done" /\ ~gb_args.legacy /\ mg_out.kind = "return")
        => /\ Ascending(mg_out.Bars)
           /\ SameBars(mg_out.Bars, InOrderResult)

\* ---------------------------------------------------------------------
\* C39: during a chunked get_bars_between no more than max_workers chunk
\* fetches are outstanding at any moment; a queued chunk starts only when a
\* worker is free; every chunk of the plan is fetched, and fetched once.
C39_AtMostMaxWorkersRunning ==
    /\ [](Cardinality(Running) <= mg_workers)
    /\ [](mg_pc = "done" => \A c \in Chunks : mg_fut[c] = "collected")
    /\ [][\A c \in DOMAIN mg_fut :
            /\ mg_fut[c] = "running" => mg_fut'[c] \in {"running", "collected"}
            /\ mg_fut[c] = "collected" => mg_fut'[c] = "collected"
            /\ (mg_fut[c] = "queued" /\ mg_fut'[c] # "queued")
                  => (mg_fut'[c] = "running"
                      /\ Cardinality(Running) < mg_workers)]_vars

\* three chunks and two workers: both workers busy, the third chunk queued
C39_Witness ==
    /\ mg_pc = "fetch"
    /\ mg_workers = 2
    /\ Len(chunks) = 3
    /\ Cardinality(Running) = 2
    /\ Queued = {3}

\* ---------------------------------------------------------------------
\* a TokenManager constructed now over the token file: what its first
\* get_token() does for token answer o
Reconstructed(o) == get_token_seq(load(file), now, url_set, o, posts + 1)

\* the file was written by a refresh whose response carried an access_token
SavedByRefresh == Saved # <<>> /\ file.rec["access_token"] # Absent

\* C40: the record a successful refresh wrote to the token file is accepted
\* by _load, so a TokenManager constructed afterwards over the file starts
\* with that record and, while it is unexpired, returns its access_token
\* without a refresh; also when the response carried only access_token,
\* expires_in and token_type.
C40_SaveLoadRoundTrip ==
    SavedByRefresh
        => /\ load(file) = file.rec
           /\ ~is_expired(file.rec, now)
                => \A o \in TokenOutcomes :
                      /\ Reconstructed(o).posted = 0
                      /\ Reconstructed(o).tok = file.rec["access_token"]

\* what does hold: the round trip of a record whose response carried every
\* key _load requires
RoundTripOfCompleteRecord ==
    (SavedByRefresh /\ ~BadFile(file))
        => /\ load(file) = file.rec
           /\ ~is_expired(file.rec, now)
                => \A o \in TokenOutcomes :
                      /\ Reconstructed(o).posted = 0
                      /\ Reconstructed(o).tok = file.rec["access_token"]

\* a refresh answered with access_token, expires_in and token_type only has
\* returned its token; the file it wrote is unexpired and _load rejects it
MinimalRecordRejected ==
    /\ SavedByRefresh
    /\ \A t \in Threads : pc[t] = "idle"
    /\ \E t \in Threads : ret[t].kind = "ok"
    /\ file.rec["id_token"] = Absent
    /\ file.rec["refresh_token"] = EnvRefreshToken
    /\ ~is_expired(file.rec, now)
    /\ load(file) = EmptyDict
====
